---- MODULE Spec2Model ----
(***************************************************************************)
(* A model of the dictamen parser and of the law/dictamen reconciliation   *)
(* engine of flexibilizacion-laboral-lct.                                  *)
(*                                                                         *)
(* Text is modelled as a sequence of tokens (one token per word, number or *)
(* punctuation mark); every regular expression of the source is an         *)
(* operator that scans such a sequence the way re.search / re.match scans  *)
(* the string.  An article number ("40", "40 bis") is one token: it is     *)
(* what group 1 of the source's number patterns captures.                  *)
(***************************************************************************)
EXTENDS Integers, Sequences, FiniteSets, TLC

(***************************************************************************)
(* Bounds of the model.                                                    *)
(***************************************************************************)
\* longest operation list handed to the reconciliation engine
MaxOps == 3

(***************************************************************************)
(* Generic helpers on sequences.                                           *)
(***************************************************************************)
Range(s) == {s[k] : k \in 1..Len(s)}

\* all sequences over S of length 0..n
SeqsUpTo(S, n) == UNION {[1..k -> S] : k \in 0..n}

\* s without its first n elements
Drop(s, n) == IF n >= Len(s) THEN <<>> ELSE SubSeq(s, n + 1, Len(s))

\* first index k >= from with P(k), or 0
RECURSIVE FirstFrom(_, _, _)
FirstFrom(P(_), from, to) ==
    IF from > to THEN 0
    ELSE IF P(from) THEN from
    ELSE FirstFrom(P, from + 1, to)

(***************************************************************************)
(* Tokens.  All patterns of the source are compiled with re.IGNORECASE, so *)
(* the upper-case word of an article marker and the lower-case word of a   *)
(* reference are both matched by "art[ii]culo".                            *)
(***************************************************************************)
ArtWord == {"ARTICULO", "articulo", "articulos"}

\* the article numbers that occur in the modelled laws and dictamens
ArtNums ==
    {"1", "2", "3", "5", "7", "10", "12", "20", "30", "31", "40", "41", "40 bis",
     "90", "91", "99"}

\* ^(\d+) of an article number, as an integer (0 when there is no digit)
extract_base_number(num) ==
    CASE num = "1" -> 1
      [] num = "2" -> 2
      [] num = "3" -> 3
      [] num = "5" -> 5
      [] num = "7" -> 7
      [] num = "12" -> 12
      [] num = "10" -> 10
      [] num = "20" -> 20
      [] num = "30" -> 30
      [] num = "31" -> 31
      [] num = "40" -> 40
      [] num = "41" -> 41
      [] num = "40 bis" -> 40
      [] num = "90" -> 90
      [] num = "91" -> 91
      [] num = "99" -> 99
      [] OTHER -> 0

\* rank of the ordinal suffix of an article number (suffix_order of sort_key)
suffix_order(num) ==
    CASE num = "40 bis" -> 1
      [] OTHER -> 0

(***************************************************************************)
(* Operation verbs.  The source accepts each verb with and without its     *)
(* accent; the model writes the unaccented spelling.                       *)
(***************************************************************************)
IncorporaVerbs == {"incorporase"}
DerogaVerbs == {"derogase"}
SustituyeVerbs == {"sustituyese", "modificase"}

(***************************************************************************)
(* utils/comparar_ley_dictamen.py: target resolution.                      *)
(***************************************************************************)
\* (sustituyese|derogase|modificase) (el|los) articulo[s] N  in the header,
\* else  incorporase como articulo N
numero_desde_encabezado(enc) ==
    LET n == Len(enc)
        isSust(k) == /\ k + 3 <= n
                     /\ enc[k] \in {"sustituyese", "derogase", "modificase"}
                     /\ enc[k + 1] \in {"el", "los"}
                     /\ enc[k + 2] \in ArtWord
                     /\ enc[k + 3] \in ArtNums
        isInc(k) == /\ k + 3 <= n
                    /\ enc[k] = "incorporase"
                    /\ enc[k + 1] = "como"
                    /\ enc[k + 2] \in {"ARTICULO", "articulo"}
                    /\ enc[k + 3] \in ArtNums
        ks == FirstFrom(isSust, 1, n)
        ki == FirstFrom(isInc, 1, n)
    IN  IF ks # 0 THEN <<enc[ks + 3]>>
        ELSE IF ki # 0 THEN <<enc[ki + 3]>>
        ELSE <<>>

\* ARTICULO N [.-]  anywhere in texto_nuevo
numero_desde_texto(txt) ==
    LET n == Len(txt)
        isHead(k) == /\ k + 2 <= n
                     /\ txt[k] \in {"ARTICULO", "articulo"}
                     /\ txt[k + 1] \in ArtNums
                     /\ txt[k + 2] \in {"-", ".", ".-"}
        k0 == FirstFrom(isHead, 1, n)
    IN  IF k0 # 0 THEN <<txt[k0 + 1]>> ELSE <<>>

\* The raw target of an operation: the comma / "y" separated list of article
\* numbers, as a sequence (empty for None).
get_destino_articulo(cambio) ==
    IF cambio.destino_articulo # <<>> THEN cambio.destino_articulo
    ELSE LET numero_desde_enc == numero_desde_encabezado(cambio.encabezado)
             numero_desde_txt == numero_desde_texto(cambio.texto_nuevo)
         IN  IF numero_desde_enc # <<>> THEN numero_desde_enc ELSE numero_desde_txt

(***************************************************************************)
(* The law tree.  A title number is stored with its JSON type.             *)
(***************************************************************************)
StrV(s) == [ty |-> "str", v |-> s]

Art(num, txt) == [numero |-> num, texto |-> txt]

\* every article of a title, direct and in chapters, in document order
RECURSIVE CapArts(_)
CapArts(caps) ==
    IF caps = <<>> THEN <<>> ELSE Head(caps).articulos \o CapArts(Tail(caps))

RECURSIVE AllArts(_)
AllArts(titulos) ==
    IF titulos = <<>> THEN <<>>
    ELSE Head(titulos).articulos \o CapArts(Head(titulos).capitulos)
         \o AllArts(Tail(titulos))

\* the chapters of a tree, in document order
RECURSIVE AllCaps(_)
AllCaps(titulos) ==
    IF titulos = <<>> THEN <<>>
    ELSE Head(titulos).capitulos \o AllCaps(Tail(titulos))

\* find_article_in_ley(ley_data, numero) is not None
find_article_in_ley(ley_data, numero_articulo) ==
    \E a \in Range(AllArts(ley_data.titulos)) : a.numero = numero_articulo

(***************************************************************************)
(* utils/comparar_ley_dictamen.py: text of an article.                     *)
(* A text is a token sequence; "NL" is a line break, "." a full stop that  *)
(* is followed by white space or by the end of the text.  Texts are short: *)
(* the source's "title is under 100 characters" test is always met.        *)
(***************************************************************************)
RECURSIVE LStrip(_)
LStrip(t) == IF t # <<>> /\ Head(t) = "NL" THEN LStrip(Tail(t)) ELSE t

RECURSIVE RStrip(_)
RStrip(t) ==
    IF t # <<>> /\ t[Len(t)] = "NL" THEN RStrip(SubSeq(t, 1, Len(t) - 1)) ELSE t

\* str.strip()
Strip(t) == RStrip(LStrip(t))

\* index of the "-" that ends the first "ARTICULO N -" of the text, or 0
patron_encabezado(texto) ==
    LET n == Len(texto)
        isHdr(k) == /\ k + 2 <= n
                    /\ texto[k] \in {"ARTICULO", "articulo"}
                    /\ texto[k + 1] \in ArtNums
                    /\ texto[k + 2] = "-"
        kh == FirstFrom(isHdr, 1, n)
    IN  IF kh = 0 THEN 0 ELSE kh + 2

\* index of the first token after the header and the white space behind it
inicio_texto(texto, dash) ==
    LET notNL(k) == texto[k] # "NL"
        k0 == FirstFrom(notNL, dash + 1, Len(texto))
    IN  IF k0 = 0 THEN Len(texto) + 1 ELSE k0

\* the title read from the line that follows the header: up to its first
\* full stop, or the whole line
primera_linea(texto, dash, ini) ==
    LET n == Len(texto)
        isNL(k) == texto[k] = "NL"
        kn == FirstFrom(isNL, ini, n)
        lineEnd == IF kn = 0 THEN n ELSE kn - 1
        isDot(k) == texto[k] = "." /\ k < n
        kd == FirstFrom(isDot, ini, lineEnd)
    IN  IF texto = <<>> \/ dash = 0 \/ ini > n THEN <<>>
        ELSE IF kd # 0 THEN SubSeq(texto, ini, kd)
        ELSE SubSeq(texto, ini, lineEnd)

extract_title_from_text(texto) ==
    LET dash == patron_encabezado(texto)
    IN  primera_linea(texto, dash, inicio_texto(texto, dash))

\* texto_limpio of parse_article_text: the text without its header and
\* without the title that follows the header
texto_limpio(texto, dash, ini) ==
    LET n == Len(texto)
        isDot(k) == texto[k] = "." /\ k < n
        kd == FirstFrom(isDot, ini, n)
        isNL(k) == texto[k] = "NL"
        kn == FirstFrom(isNL, ini, n)
        linea1 == IF kn = 0 THEN <<>> ELSE SubSeq(texto, ini, kn - 1)
        potential_end ==
            IF kd # 0 THEN kd
            ELSE IF kn # 0 /\ linea1 # <<>> /\ linea1[Len(linea1)] \notin {":", ","}
                 THEN kn
                 ELSE 0
    IN  IF dash = 0 THEN texto
        ELSE IF potential_end # 0 THEN Drop(texto, potential_end)
        ELSE Drop(texto, ini - 1)

\* parse_article_text(texto): its 'titulo' and its 'texto'
parse_article_text(texto) ==
    LET dash == patron_encabezado(texto)
    IN  IF texto = <<>>
        THEN [titulo |-> <<>>, texto |-> <<>>]
        ELSE [titulo |-> extract_title_from_text(texto),
              texto |-> Strip(texto_limpio(texto, dash, inicio_texto(texto, dash)))]

(***************************************************************************)
(* utils/comparar_ley_dictamen.py: process_dictamen_changes.               *)
(***************************************************************************)
EmptyMap == [x \in {} |-> x]

cambios_vacios ==
    [cambios_por_articulo |-> EmptyMap,
     incorporaciones |-> <<>>,
     derogaciones_articulos |-> {},
     derogaciones_capitulos |-> <<>>,
     derogacion_total |-> FALSE]

\* dict[key] = set(): a new key goes last, a known key keeps its place
SetKey(keys, key) == IF key \in Range(keys) THEN keys ELSE Append(keys, key)

\* the body of "for destino_articulo in targets"
RECURSIVE process_targets(_, _, _, _)
process_targets(c, cambio, targets, ley_data) ==
    IF targets = <<>> THEN c
    ELSE
      LET destino_articulo == Head(targets)
          existe == find_article_in_ley(ley_data, destino_articulo)
          accion == cambio.accion
          sustitucion ==
              [c EXCEPT !.cambios_por_articulo =
                  (destino_articulo :> [tipo |-> "sustitucion", cambio |-> cambio]) @@ @]
          incorporacion ==
              [c EXCEPT !.incorporaciones =
                  Append(@, [cambio |-> cambio, numero |-> destino_articulo])]
          derogacion ==
              [c EXCEPT !.derogaciones_articulos = @ \cup {destino_articulo},
                        !.cambios_por_articulo =
                  (destino_articulo :> [tipo |-> "derogacion", cambio |-> cambio]) @@ @]
          c1 == IF accion \in IncorporaVerbs
                  THEN (IF existe THEN sustitucion ELSE incorporacion)
                ELSE IF accion \in DerogaVerbs
                  THEN derogacion
                ELSE IF accion \in SustituyeVerbs
                  THEN (IF existe THEN sustitucion ELSE incorporacion)
                ELSE c
      IN  process_targets(c1, cambio, Tail(targets), ley_data)

\* the body of "for cambio in dictamen_data"
process_cambio(c, cambio, ley_data) ==
    IF cambio.destino_capitulo # ""
    THEN [c EXCEPT !.derogaciones_capitulos = SetKey(@, cambio.destino_capitulo)]
    ELSE
      LET destino_articulo_raw == get_destino_articulo(cambio)
      IN  IF destino_articulo_raw # <<>>
          THEN process_targets(c, cambio, destino_articulo_raw, ley_data)
          ELSE IF cambio.accion \in DerogaVerbs
               THEN [c EXCEPT !.derogacion_total = TRUE]
               ELSE c

RECURSIVE process_dictamen_changes(_, _)
process_dictamen_changes(dictamen_data, ley_data) ==
    IF dictamen_data = <<>> THEN cambios_vacios
    ELSE process_cambio(
             process_dictamen_changes(SubSeq(dictamen_data, 1, Len(dictamen_data) - 1),
                                      ley_data),
             dictamen_data[Len(dictamen_data)], ley_data)

(***************************************************************************)
(* utils/comparar_ley_dictamen.py: the walk over titles and chapters.      *)
(***************************************************************************)
\* articulo.copy() with the keys of r set
With(articulo, r) == r @@ articulo

\* a substitution that overwrites the stored text with the new one
articulo_reemplazado(articulo_original, cambio, parsed) ==
    With(articulo_original,
         [estado |-> "sustituido",
          texto |-> parsed.texto,
          accion |-> cambio.accion,
          dictamen_articulo |-> cambio.dictamen_articulo])

\* the article a substitution leaves, parsed being parse_article_text of the
\* new text
articulo_sustituido(articulo_original, cambio, parsed) ==
    With(articulo_original,
         (IF parsed.titulo # <<>> THEN [titulo_nuevo |-> parsed.titulo] ELSE EmptyMap)
         @@ [estado |-> "sustituido",
             texto_original |-> articulo_original.texto,
             texto_nuevo |-> parsed.texto,
             accion |-> cambio.accion,
             dictamen_articulo |-> cambio.dictamen_articulo])

apply_changes_to_article(articulo_original, cambios) ==
    LET numero == articulo_original.numero
        cambio_info == cambios.cambios_por_articulo[numero]
    IN  IF numero \in DOMAIN cambios.cambios_por_articulo
        THEN IF cambio_info.tipo = "sustitucion"
             THEN articulo_sustituido(articulo_original, cambio_info.cambio,
                                      parse_article_text(cambio_info.cambio.texto_nuevo))
             ELSE With(articulo_original,
                       [estado |-> "derogado",
                        accion |-> cambio_info.cambio.accion,
                        dictamen_articulo |-> cambio_info.cambio.dictamen_articulo])
        ELSE With(articulo_original, [estado |-> "sin_cambios"])

articulo_derogado(articulo, motivo) ==
    With(articulo, [estado |-> "derogado", accion |-> motivo])

capitulo_comparado(capitulo, cambios) ==
    IF cambios.derogacion_total
    THEN [numero |-> capitulo.numero, estado |-> "derogado",
          articulos |-> [k \in 1..Len(capitulo.articulos) |->
                           articulo_derogado(capitulo.articulos[k], "derogase (ley completa)")]]
    ELSE IF capitulo.numero \in Range(cambios.derogaciones_capitulos)
    THEN [numero |-> capitulo.numero, estado |-> "derogado",
          articulos |-> [k \in 1..Len(capitulo.articulos) |->
                           articulo_derogado(capitulo.articulos[k], "derogase (capitulo completo)")]]
    ELSE [numero |-> capitulo.numero,
          articulos |-> [k \in 1..Len(capitulo.articulos) |->
                           apply_changes_to_article(capitulo.articulos[k], cambios)]]

titulo_comparado(titulo, cambios) ==
    With([numero |-> titulo.numero,
          articulos |-> [k \in 1..Len(titulo.articulos) |->
              IF cambios.derogacion_total
              THEN articulo_derogado(titulo.articulos[k], "derogase (ley completa)")
              ELSE apply_changes_to_article(titulo.articulos[k], cambios)],
          capitulos |-> [k \in 1..Len(titulo.capitulos) |->
              capitulo_comparado(titulo.capitulos[k], cambios)]],
         IF cambios.derogacion_total THEN [estado |-> "derogado"] ELSE EmptyMap)

metadatos_de(cambios) ==
    [total_sustituciones |->
         Cardinality({n \in DOMAIN cambios.cambios_por_articulo :
                         cambios.cambios_por_articulo[n].tipo = "sustitucion"}),
     total_incorporaciones |-> Len(cambios.incorporaciones),
     total_derogaciones |-> Cardinality(cambios.derogaciones_articulos),
     capitulos_derogados |-> cambios.derogaciones_capitulos,
     derogacion_total |-> cambios.derogacion_total]

(***************************************************************************)
(* utils/comparar_ley_dictamen.py: incorporated articles.                  *)
(***************************************************************************)
NoneV == [ty |-> "none", v |-> ""]

\* truth value of a title number in "if titulo_num:"
Truthy(x) == x.ty # "none" /\ x.v # "" /\ ~(x.ty = "int" /\ x.v = "0")

\* str(x)
StrOf(x) == IF x.ty = "none" THEN StrV("None") ELSE StrV(x.v)

MinOf(S) == CHOOSE m \in S : \A x \in S : m <= x

MaxOf(S) == CHOOSE m \in S : \A x \in S : m >= x

RECURSIVE titulos_ranges(_)
titulos_ranges(titulos) ==
    IF titulos = <<>> THEN <<>>
    ELSE LET titulo == Head(titulos)
             bases == {extract_base_number(a.numero) : a \in Range(AllArts(<<titulo>>))}
         IN  (IF bases = {} THEN <<>>
              ELSE <<[titulo |-> titulo, min |-> MinOf(bases), max |-> MaxOf(bases \cup {0})]>>)
             \o titulos_ranges(Tail(titulos))

\* titulo_de_rango that takes the last title below the target instead of the
\* one with the greatest max
titulo_de_rango_ultimo(trs, target_base) ==
    LET n == Len(trs)
        contains(k) == trs[k].min <= target_base /\ target_base <= trs[k].max
        kc == FirstFrom(contains, 1, n)
        below == {k \in 1..n : trs[k].max < target_base}
    IN  IF kc # 0 THEN trs[kc].titulo.numero
        ELSE IF below # {} THEN trs[MaxOf(below)].titulo.numero
        ELSE IF n > 0 THEN trs[n].titulo.numero
        ELSE NoneV

\* the numero of the title whose range holds target_base, else of the
\* nearest title below it, else of the last title (NoneV for None)
titulo_de_rango(trs, target_base) ==
    LET n == Len(trs)
        contains(k) == trs[k].min <= target_base /\ target_base <= trs[k].max
        kc == FirstFrom(contains, 1, n)
        below == {k \in 1..n : trs[k].max < target_base}
        best_max == MaxOf({trs[k].max : k \in below})
        isBest(k) == k \in below /\ trs[k].max = best_max
        kb == FirstFrom(isBest, 1, n)
    IN  IF kc # 0 THEN trs[kc].titulo.numero
        ELSE IF below # {} THEN trs[kb].titulo.numero
        ELSE IF n > 0 THEN trs[n].titulo.numero
        ELSE NoneV

find_titulo_for_article(ley_data, numero_articulo) ==
    titulo_de_rango(titulos_ranges(ley_data.titulos), extract_base_number(numero_articulo))

\* the article process_incorporated_articles builds for an incorporation
articulo_incorporado(inc, parsed, titulo_destino_numero) ==
    [numero |-> inc.numero,
     titulo |-> parsed.titulo,
     texto |-> parsed.texto,
     estado |-> "incorporado",
     accion |-> inc.cambio.accion,
     dictamen_articulo |-> inc.cambio.dictamen_articulo,
     titulo_destino_numero |-> titulo_destino_numero]

RECURSIVE process_incorporated_articles(_, _)
process_incorporated_articles(incorporaciones, ley_data) ==
    IF incorporaciones = <<>> THEN <<>>
    ELSE (IF find_article_in_ley(ley_data, Head(incorporaciones).numero) THEN <<>>
          ELSE <<articulo_incorporado(
                    Head(incorporaciones),
                    parse_article_text(Head(incorporaciones).cambio.texto_nuevo),
                    find_titulo_for_article(ley_data, Head(incorporaciones).numero))>>)
         \o process_incorporated_articles(Tail(incorporaciones), ley_data)

\* the value sort_key gives to articles whose number does not parse
UnparseableKey == 999999

sort_key(art) ==
    IF art.numero \in ArtNums
    THEN <<extract_base_number(art.numero), suffix_order(art.numero)>>
    ELSE <<UnparseableKey, 0>>

KeyLE(a, b) == a[1] < b[1] \/ (a[1] = b[1] /\ a[2] <= b[2])

sin_ordenar(s) == s

\* list.sort(key=sort_key): a stable sort
RECURSIVE SortArts(_)
SortArts(s) ==
    IF s = <<>> THEN <<>>
    ELSE LET x == s[Len(s)]
             front == SortArts(SubSeq(s, 1, Len(s) - 1))
             le == {k \in 1..Len(front) : KeyLE(sort_key(front[k]), sort_key(x))}
             pos == IF le = {} THEN 0 ELSE MaxOf(le)
         IN  SubSeq(front, 1, pos) \o <<x>> \o Drop(front, pos)

\* {k: v for k, v in art_inc.items() if k != 'titulo_destino_numero'}
art_inc_clean(art_inc) ==
    [k \in DOMAIN art_inc \ {"titulo_destino_numero"} |-> art_inc[k]]

RECURSIVE incorporados_de(_, _)
incorporados_de(articulos_incorporados, titulo_num) ==
    IF articulos_incorporados = <<>> THEN <<>>
    ELSE LET art_inc == Head(articulos_incorporados)
         IN  (IF Truthy(art_inc.titulo_destino_numero)
                 /\ art_inc.titulo_destino_numero = titulo_num
              THEN <<art_inc>> ELSE <<>>)
             \o incorporados_de(Tail(articulos_incorporados), titulo_num)

\* "for capitulo in titulo['capitulos']": the chapters, the first matching
\* incorporation appended to each, and the flag inserted_in_chapter
RECURSIVE insert_in_chapters(_, _, _)
insert_in_chapters(capitulos, incs, inserted_in_chapter) ==
    IF capitulos = <<>> THEN [capitulos |-> <<>>, inserted |-> inserted_in_chapter]
    ELSE
      LET capitulo == Head(capitulos)
          examined == IF inserted_in_chapter THEN 1 ELSE Len(incs)
          fits(k) == \E articulo \in Range(capitulo.articulos) :
                        /\ articulo.numero \in ArtNums
                        /\ incs[k].numero \in ArtNums
                        /\ extract_base_number(incs[k].numero)
                             = extract_base_number(articulo.numero)
          kf == IF capitulo.articulos = <<>> THEN 0 ELSE FirstFrom(fits, 1, examined)
          capitulo1 == IF kf = 0 THEN capitulo
                       ELSE [capitulo EXCEPT !.articulos = Append(@, art_inc_clean(incs[kf]))]
          rest == insert_in_chapters(Tail(capitulos), incs, inserted_in_chapter \/ kf # 0)
      IN  [capitulos |-> <<capitulo1>> \o rest.capitulos, inserted |-> rest.inserted]

RECURSIVE not_already_inserted(_, _)
not_already_inserted(incs, capitulos) ==
    IF incs = <<>> THEN <<>>
    ELSE (IF \E art \in Range(CapArts(capitulos)) : art.numero = Head(incs).numero
          THEN <<>> ELSE <<art_inc_clean(Head(incs))>>)
         \o not_already_inserted(Tail(incs), capitulos)

\* the title after the insertion of incs, the incorporations meant for it
titulo_con_incorporados(titulo, incs) ==
    LET r == insert_in_chapters(titulo.capitulos, incs, FALSE)
        articulos1 == IF r.inserted THEN titulo.articulos
                      ELSE titulo.articulos \o not_already_inserted(incs, r.capitulos)
    IN  IF incs = <<>> THEN titulo
        ELSE [titulo EXCEPT
                !.articulos = SortArts(articulos1),
                !.capitulos = [k \in 1..Len(r.capitulos) |->
                                 [r.capitulos[k] EXCEPT !.articulos = SortArts(@)]]]

\* the body of "for titulo in comparacion['ley']['titulos']"
insert_in_titulo(titulo, articulos_incorporados) ==
    titulo_con_incorporados(titulo, incorporados_de(articulos_incorporados, StrOf(titulo.numero)))

(***************************************************************************)
(* Inputs of the reconciliation: normalized laws and dictamen operations.  *)
(***************************************************************************)
Cap(num, arts) == [numero |-> num, articulos |-> arts]

Tit(num, arts, caps) == [numero |-> num, articulos |-> arts, capitulos |-> caps]

\* a law with direct articles, a chapter with articles and an empty Chapter VIII
LeyA ==
    [titulos |-> <<
        Tit(StrV("I"), <<Art("1", <<"t1">>), Art("2", <<"t2">>),
                         Art("30", <<"t30">>), Art("31", <<"t31">>)>>, <<>>),
        Tit(StrV("III"), <<>>,
            <<Cap("I", <<Art("40", <<"t40">>), Art("41", <<"t41">>)>>),
              Cap("VIII", <<>>)>>)>>]

\* a law whose two titles both have a Chapter I
LeyB ==
    [titulos |-> <<
        Tit(StrV("I"), <<>>, <<Cap("I", <<Art("1", <<"t1">>), Art("2", <<"t2">>)>>)>>),
        Tit(StrV("II"), <<Art("40", <<"t40">>)>>,
            <<Cap("I", <<Art("41", <<"t41">>)>>)>>)>>]

\* a law whose Chapter VIII holds unnumbered articles
LeyC ==
    [titulos |-> <<
        Tit(StrV("III"), <<Art("40", <<"t40">>)>>,
            <<Cap("VIII", <<Art("S/N", <<"s1">>), Art("S/N", <<"s2">>)>>)>>)>>]

Leyes == {LeyA, LeyB, LeyC}

Cambio(da, accion, destino, cap, inciso, padre, enc, txt) ==
    [dictamen_articulo |-> da, accion |-> accion, destino_articulo |-> destino,
     destino_capitulo |-> cap, destino_inciso |-> inciso,
     destino_articulo_padre |-> padre, encabezado |-> enc, texto_nuevo |-> txt]

Enc(da, verbo, resto) == <<"ARTICULO", da, "-", verbo>> \o resto

cSust40 ==
    Cambio("5", "sustituyese", <<"40">>, "", "", "",
           Enc("5", "sustituyese", <<"el", "articulo", "40">>),
           <<"ARTICULO", "40", "-", "Rubro", ".", "texto", "nuevo">>)

cDer40 ==
    Cambio("5", "derogase", <<"40">>, "", "", "",
           Enc("5", "derogase", <<"el", "articulo", "40">>), <<>>)

\* a substitution whose replacement text was not captured
cMod41 ==
    Cambio("5", "modificase", <<"41">>, "", "", "",
           Enc("5", "modificase", <<"el", "articulo", "41">>), <<>>)

cInc40bis ==
    Cambio("5", "incorporase", <<"40 bis">>, "", "", "",
           Enc("5", "incorporase", <<"como", "articulo", "40 bis">>),
           <<"ARTICULO", "40 bis", "-", "Rubro", ".", "texto", "bis">>)

cInc3 ==
    Cambio("5", "incorporase", <<"3">>, "", "", "",
           Enc("5", "incorporase", <<"como", "articulo", "3">>),
           <<"texto", "tres">>)

cDerCapI ==
    Cambio("5", "derogase", <<>>, "I", "", "",
           Enc("5", "derogase", <<"el", "capitulo", "I">>), <<>>)

cDerCapVIII ==
    Cambio("5", "derogase", <<>>, "VIII", "", "",
           Enc("5", "derogase", <<"el", "capitulo", "VIII">>), <<>>)

\* the chapter numeral as a header in lower case spells it
cDerCapViii ==
    Cambio("5", "derogase", <<>>, "viii", "", "",
           Enc("5", "derogase", <<"el", "capitulo", "viii">>), <<>>)

cDerLey ==
    Cambio("90", "derogase", <<>>, "", "", "",
           Enc("90", "derogase", <<"la", "ley", "20744">>), <<>>)

cDerInciso ==
    Cambio("5", "derogase", <<>>, "", "a)", "40",
           Enc("5", "derogase", <<"el", "inciso", "a)", "del", "articulo", "40">>), <<>>)

\* no recorded target; the header names 30, the replacement text opens with 31
cSustSinDestino ==
    Cambio("5", "sustituyese", <<>>, "", "", "",
           Enc("5", "sustituyese", <<"el", "articulo", "30">>),
           <<"ARTICULO", "31", ".-", "texto", "nuevo">>)

\* a verb the engine does not apply
cSupr40 ==
    Cambio("5", "suprimese", <<"40">>, "", "", "",
           Enc("5", "suprimese", <<"el", "articulo", "40">>), <<>>)

\* a list of targets
cDer1y2 ==
    Cambio("5", "derogase", <<"1", "2">>, "", "", "",
           Enc("5", "derogase", <<"los", "articulos", "1", "y", "2">>), <<>>)

Cambios ==
    {cSust40, cDer40, cMod41, cInc40bis, cInc3, cDerCapI, cDerCapVIII, cDerCapViii, cDerLey,
     cDerInciso, cSustSinDestino, cSupr40, cDer1y2}

\* the value of 'accion' in a record whose action is None (JSON null)
SinAccion == "None"

\* cambio.get('accion', '').lower(): None has no lower()
lower_raises(cambio) == cambio.accion = SinAccion

\* dictamen_articulo_to_legacy_dict of an operation sealed with
\* crear_objetivo_accion_vacio: action and targets are None
cVacio ==
    Cambio("7", SinAccion, <<>>, "", "", "",
           <<"ARTICULO", "7", "-", "texto", "sin", "verbo">>, <<>>)

\* a null action with a recorded target
cSinAccion40 ==
    Cambio("7", SinAccion, <<"40">>, "", "", "",
           <<"ARTICULO", "7", "-", "texto", "sin", "verbo">>, <<>>)

\* a record without the key 'accion' and without targets
cAccionAusente ==
    Cambio("7", "", <<>>, "", "", "",
           <<"ARTICULO", "7", "-", "texto", "sin", "verbo">>, <<>>)

Malformadas == {cVacio, cSinAccion40, cAccionAusente}

(***************************************************************************)
(* matcher/matcher.py.  An article identifier is the raw target (a         *)
(* sequence of numbers) or the synthetic tuple <<"CAP", chapter, "ART", i>>*)
(* that stands for the string "CAP_<chapter>_ART_<i>".                     *)
(***************************************************************************)
\* str.upper() on a chapter numeral
upper(s) ==
    CASE s = "viii" -> "VIII"
      [] s = "i" -> "I"
      [] OTHER -> s

\* str(i) for the positions of a chapter
Digits == <<"1", "2", "3", "4", "5", "6", "7", "8", "9">>

CapArtId(capitulo_numero, i) == <<"CAP", capitulo_numero, "ART", Digits[i]>>

\* incorporase como articulo N, else the first "articulo N" of the header
extract_article_number_from_header(encabezado) ==
    LET n == Len(encabezado)
        isInc(k) == /\ k + 3 <= n
                    /\ encabezado[k] = "incorporase"
                    /\ encabezado[k + 1] = "como"
                    /\ encabezado[k + 2] \in {"ARTICULO", "articulo"}
                    /\ encabezado[k + 3] \in ArtNums
        isArt(k) == /\ k + 1 <= n
                    /\ encabezado[k] \in {"ARTICULO", "articulo"}
                    /\ encabezado[k + 1] \in ArtNums
        ki == FirstFrom(isInc, 1, n)
        ka == FirstFrom(isArt, 1, n)
    IN  IF ki # 0 THEN <<encabezado[ki + 3]>>
        ELSE IF ka # 0 THEN <<encabezado[ka + 1]>>
        ELSE <<>>

\* get_destino_articulo of the matcher: recorded target, else ARTICULO N -
\* in texto_nuevo, else the header
matcher_get_destino_articulo(cambio) ==
    LET dash == patron_encabezado(cambio.texto_nuevo)
    IN  IF cambio.destino_articulo # <<>> THEN cambio.destino_articulo
        ELSE IF dash # 0 THEN <<cambio.texto_nuevo[dash - 1]>>
        ELSE extract_article_number_from_header(cambio.encabezado)

\* the identifiers of the articles of one chapter
articles_of_chapter(capitulo, capitulo_numero) ==
    [i \in 1..Len(capitulo.articulos) |->
        IF capitulo.articulos[i].numero \in {"", "S/N", "null"}
        THEN CapArtId(capitulo_numero, i)
        ELSE <<capitulo.articulos[i].numero>>]

RECURSIVE find_articles_in_chapters(_, _)
find_articles_in_chapters(capitulos, capitulo_numero) ==
    IF capitulos = <<>> THEN <<>>
    ELSE (IF upper(Head(capitulos).numero) = upper(capitulo_numero)
          THEN articles_of_chapter(Head(capitulos), capitulo_numero)
          ELSE <<>>)
         \o find_articles_in_chapters(Tail(capitulos), capitulo_numero)

find_articles_in_chapter(ley_data, capitulo_numero) ==
    find_articles_in_chapters(AllCaps(ley_data.titulos), capitulo_numero)

\* the number of placeholder articles made for an empty Chapter VIII
SyntheticCount == 7

synthetic_articles == {CapArtId("VIII", i) : i \in 1..SyntheticCount}

match_vacio ==
    [modified_articles |-> {}, derogated_articles |-> {},
     derogated_chapters |-> EmptyMap, chapter_keys |-> <<>>,
     incorporated_articles |-> <<>>]

\* the body of "for cambio in dictamen_data" of process_dictamen_data
match_cambio(m, cambio, ley_data) ==
    IF cambio.destino_capitulo # ""
    THEN LET capitulo_numero == cambio.destino_capitulo
             articles_in_chapter == Range(find_articles_in_chapter(ley_data, capitulo_numero))
             derogados == IF articles_in_chapter = {} /\ upper(capitulo_numero) = "VIII"
                          THEN synthetic_articles
                          ELSE articles_in_chapter
         IN  [m EXCEPT !.modified_articles = @ \cup derogados,
                       !.derogated_articles = @ \cup derogados,
                       !.derogated_chapters = (capitulo_numero :> derogados) @@ @,
                       !.chapter_keys = SetKey(@, capitulo_numero)]
    ELSE LET destino_articulo == matcher_get_destino_articulo(cambio)
         IN  IF destino_articulo = <<>> THEN m
             ELSE [m EXCEPT !.modified_articles = @ \cup {destino_articulo},
                            !.derogated_articles =
                                IF cambio.accion \in DerogaVerbs
                                THEN @ \cup {destino_articulo} ELSE @]

\* the first line after "ARTICULO N -" in texto_nuevo
titulo_incorporado(texto_nuevo) ==
    LET dash == patron_encabezado(texto_nuevo)
        ini == inicio_texto(texto_nuevo, dash)
        isNL(k) == texto_nuevo[k] = "NL"
        kn == FirstFrom(isNL, ini, Len(texto_nuevo))
    IN  IF dash = 0 \/ ini > Len(texto_nuevo) THEN <<>>
        ELSE IF kn = 0 THEN SubSeq(texto_nuevo, ini, Len(texto_nuevo))
        ELSE SubSeq(texto_nuevo, ini, kn - 1)

RECURSIVE get_incorporated_articles(_, _)
get_incorporated_articles(dictamen_data, ley_data) ==
    IF dictamen_data = <<>> THEN <<>>
    ELSE LET cambio == Head(dictamen_data)
             destino_articulo == matcher_get_destino_articulo(cambio)
             exists_in_law == \E art \in Range(AllArts(ley_data.titulos)) :
                                 <<art.numero>> = destino_articulo
         IN  (IF cambio.accion \in IncorporaVerbs /\ destino_articulo # <<>>
                 /\ ~exists_in_law
              THEN <<[numero |-> destino_articulo,
                      titulo |-> titulo_incorporado(cambio.texto_nuevo),
                      texto |-> cambio.texto_nuevo,
                      isIncorporated |-> TRUE,
                      tituloNumero |-> "I"]>>
              ELSE <<>>)
             \o get_incorporated_articles(Tail(dictamen_data), ley_data)

\* the first operation whose target is the article, <<>> for None
get_cambio_for_articulo(dictamen_data, numero_articulo) ==
    LET hit(k) == matcher_get_destino_articulo(dictamen_data[k]) = <<numero_articulo>>
        k0 == FirstFrom(hit, 1, Len(dictamen_data))
    IN  IF k0 = 0 THEN <<>> ELSE <<dictamen_data[k0]>>

\* the placeholder article of a synthetic identifier of Chapter VIII
articulo_sintetico(art_id) ==
    [numero |-> art_id, isDerogated |-> TRUE,
     tituloNumero |-> "III", capituloNumero |-> "VIII"]

\* per derogated chapter, in dict order, the articles the function lists for
\* it (the order inside a chapter is the iteration order of a set)
get_derogated_chapter_articles(derogated_chapters, chapter_keys) ==
    [k \in 1..Len(chapter_keys) |->
        {articulo_sintetico(art_id) :
            art_id \in {a \in derogated_chapters[chapter_keys[k]] :
                           /\ Len(a) = 4
                           /\ a[1] = "CAP"
                           /\ a[2] = "VIII"
                           /\ a[4] \in {Digits[i] : i \in 1..SyntheticCount}}}]

(***************************************************************************)
(* parsers/dictamen/parser.py: the patterns.  A line is a token sequence,  *)
(* a blank line the empty sequence.                                        *)
(***************************************************************************)
OP_VERBS ==
    {"sustituyese", "incorporase", "derogase", "modificase", "crease",
     "suprimese", "reemplazase"}

\* the numerals [IVXLCDM]+|[0-9]+ of titles and chapters
Numerals == {"I", "II", "III", "VIII", "1", "2", "3"}

\* ^\s*ARTICULO N [-]  (a full stop before the dash does not match)
HEADER_RE(line) ==
    /\ Len(line) >= 3
    /\ line[1] \in {"ARTICULO", "articulo"}
    /\ line[2] \in ArtNums
    /\ line[3] = "-"

\* ^\s*(TITULO|CAPITULO|SECCION|ANEXO)\b
STRUCT_RE(line) ==
    /\ line # <<>>
    /\ line[1] \in {"TITULO", "titulo", "CAPITULO", "capitulo", "SECCION", "ANEXO"}

\* ^\s*TITULO <numeral>
TITULO_RE(line) ==
    /\ Len(line) >= 2
    /\ line[1] \in {"TITULO", "titulo"}
    /\ line[2] \in Numerals

\* index of the first "TITULO <numeral>" of the line, or 0
TITULO_RE_ANYWHERE(line) ==
    LET isTit(k) == /\ k + 1 <= Len(line)
                    /\ line[k] \in {"TITULO", "titulo"}
                    /\ line[k + 1] \in Numerals
    IN  FirstFrom(isTit, 1, Len(line))

\* index of the first operative verb, or 0
OP_VERB_RE(toks) ==
    LET isVerb(k) == toks[k] \in OP_VERBS
    IN  FirstFrom(isVerb, 1, Len(toks))

\* the number of tokens of the trigger phrase that starts at k, or 0
trigger_len(toks, k) ==
    LET at(j, w) == j <= Len(toks) /\ toks[j] = w
    IN  IF at(k, "por") /\ at(k + 1, "el") /\ at(k + 2, "siguiente") /\ at(k + 3, ":")
        THEN 4
        ELSE IF at(k, "el") /\ at(k + 1, "siguiente") /\ at(k + 2, "texto") /\ at(k + 3, ":")
        THEN 4
        ELSE IF at(k, "por") /\ at(k + 1, "el") /\ at(k + 2, "siguiente")
                /\ at(k + 3, "texto") /\ at(k + 4, ":")
        THEN 5
        ELSE 0

\* index of the first trigger phrase, or 0
TRIGGER_RE(toks) ==
    LET isTrigger(k) == trigger_len(toks, k) > 0
    IN  FirstFrom(isTrigger, 1, Len(toks))

looks_like_dictamen_header(header_tail) == OP_VERB_RE(header_tail) # 0

\* index of the first non-blank line at or after start, Len + 1 if none
find_next_nonempty(lines, start) ==
    LET nonempty(k) == lines[k] # <<>>
        j == FirstFrom(nonempty, start, Len(lines))
    IN  IF j = 0 THEN Len(lines) + 1 ELSE j

\* the number of continuation lines a header may take
max_lines == 5

\* the loop without its bound on the lines captured
RECURSIVE scan_header_sin_tope(_, _, _, _)
scan_header_sin_tope(lines, j, lines_captured, header_parts) ==
    IF j > Len(lines)
    THEN [combined |-> header_parts, j |-> j, gatillo_encontrado |-> FALSE]
    ELSE LET line == lines[j]
         IN  IF line = <<>>
             THEN scan_header_sin_tope(lines, j + 1, lines_captured, header_parts)
             ELSE IF TRIGGER_RE(line) # 0
             THEN [combined |-> header_parts \o line, j |-> j + 1,
                   gatillo_encontrado |-> TRUE]
             ELSE IF HEADER_RE(line) \/ STRUCT_RE(line)
             THEN [combined |-> header_parts, j |-> j, gatillo_encontrado |-> FALSE]
             ELSE scan_header_sin_tope(lines, j + 1, lines_captured + 1,
                                       header_parts \o line)

\* the loop that adds continuation lines to a header
RECURSIVE scan_header(_, _, _, _)
scan_header(lines, j, lines_captured, header_parts) ==
    IF j > Len(lines) \/ lines_captured >= max_lines
    THEN [combined |-> header_parts, j |-> j, gatillo_encontrado |-> FALSE]
    ELSE LET line == lines[j]
         IN  IF line = <<>>
             THEN scan_header(lines, j + 1, lines_captured, header_parts)
             ELSE IF TRIGGER_RE(line) # 0
             THEN [combined |-> header_parts \o line, j |-> j + 1,
                   gatillo_encontrado |-> TRUE]
             ELSE IF HEADER_RE(line) \/ STRUCT_RE(line)
             THEN [combined |-> header_parts, j |-> j, gatillo_encontrado |-> FALSE]
             ELSE scan_header(lines, j + 1, lines_captured + 1, header_parts \o line)

no_header(idx) ==
    [es_dictamen |-> FALSE, combined |-> <<>>, j |-> idx + 1, gatillo_encontrado |-> FALSE]

is_dictamen_header(lines, idx) ==
    IF ~HEADER_RE(lines[idx]) THEN no_header(idx)
    ELSE
      LET art_num == lines[idx][2]
          tail == Drop(lines[idx], 3)
          marker == <<"ARTICULO", art_num, "-">>
          j == find_next_nonempty(lines, idx + 1)
          nxt == IF j > Len(lines) THEN <<>> ELSE lines[j]
      IN  IF looks_like_dictamen_header(tail)
          THEN [es_dictamen |-> TRUE] @@ scan_header(lines, idx + 1, 0, marker \o tail)
          ELSE IF nxt # <<>> /\ looks_like_dictamen_header(nxt)
          THEN [es_dictamen |-> TRUE] @@ scan_header(lines, j + 1, 0, marker \o nxt)
          ELSE no_header(idx)

(***************************************************************************)
(* parsers/dictamen/parser.py: the target of an operation.                 *)
(***************************************************************************)
\* the digits of an article number: what ([0-9]+) captures of it
base_digits(num) == IF num = "40 bis" THEN "40" ELSE num

\* derogase el capitulo <numeral>
TARGET_CAPITULO_RE(toks) ==
    LET isCap(k) == /\ k + 3 <= Len(toks)
                    /\ toks[k] = "derogase"
                    /\ toks[k + 1] = "el"
                    /\ toks[k + 2] \in {"capitulo", "CAPITULO"}
                    /\ toks[k + 3] \in Numerals
    IN  FirstFrom(isCap, 1, Len(toks))

\* inciso x) del articulo N
TARGET_INCISO_RE(toks) ==
    LET isInciso(k) == /\ k + 4 <= Len(toks)
                       /\ toks[k] = "inciso"
                       /\ toks[k + 1] \in {"a)", "b)"}
                       /\ toks[k + 2] = "del"
                       /\ toks[k + 3] \in {"articulo", "ARTICULO"}
                       /\ toks[k + 4] \in ArtNums
    IN  FirstFrom(isInciso, 1, Len(toks))

\* incorporase como articulo N
INCORPORATION_TARGET_RE(toks) ==
    LET isInc(k) == /\ k + 3 <= Len(toks)
                    /\ toks[k] = "incorporase"
                    /\ toks[k + 1] = "como"
                    /\ toks[k + 2] \in {"articulo", "ARTICULO"}
                    /\ toks[k + 3] \in ArtNums
    IN  FirstFrom(isInc, 1, Len(toks))

\* (sustituyese|derogase|modificase|suprimese|reemplazase) el articulo N
TARGET_ART_AFTER_VERB_RE(toks) ==
    LET isTarget(k) ==
            /\ k + 3 <= Len(toks)
            /\ toks[k] \in {"sustituyese", "derogase", "modificase", "suprimese", "reemplazase"}
            /\ toks[k + 1] = "el"
            /\ toks[k + 2] \in {"articulo", "ARTICULO"}
            /\ toks[k + 3] \in ArtNums
    IN  FirstFrom(isTarget, 1, Len(toks))

\* articulo N, anywhere and in any case
TARGET_ART_RE(toks) ==
    LET isArt(k) == /\ k + 1 <= Len(toks)
                    /\ toks[k] \in {"articulo", "ARTICULO"}
                    /\ toks[k + 1] \in ArtNums
    IN  FirstFrom(isArt, 1, Len(toks))

meta_vacia ==
    [accion |-> "", destino_articulo |-> <<>>, destino_inciso |-> "",
     destino_articulo_padre |-> "", destino_capitulo |-> ""]

parse_action_and_target(header_text) ==
    LET mv == OP_VERB_RE(header_text)
        accion == IF mv = 0 THEN "" ELSE header_text[mv]
        out == [meta_vacia EXCEPT !.accion = accion]
        mcap == TARGET_CAPITULO_RE(header_text)
        minc == TARGET_INCISO_RE(header_text)
        mincorp == INCORPORATION_TARGET_RE(header_text)
        mart_after_verb == TARGET_ART_AFTER_VERB_RE(header_text)
        mart == TARGET_ART_RE(header_text)
    IN  IF accion = "derogase" /\ mcap # 0
        THEN [out EXCEPT !.destino_capitulo = header_text[mcap + 3]]
        ELSE IF minc # 0
        THEN [out EXCEPT !.destino_inciso = header_text[minc + 1],
                         !.destino_articulo_padre = base_digits(header_text[minc + 4])]
        ELSE IF accion = "incorporase" /\ mincorp # 0
        THEN [out EXCEPT !.destino_articulo = <<header_text[mincorp + 3]>>]
        ELSE IF accion \in {"sustituyese", "derogase", "modificase", "suprimese", "reemplazase"}
                /\ mart_after_verb # 0
        THEN [out EXCEPT !.destino_articulo = <<header_text[mart_after_verb + 3]>>]
        ELSE IF mart # 0
        THEN [out EXCEPT !.destino_articulo = <<header_text[mart + 1]>>]
        ELSE out

\* ARTICULO N [.-] anywhere in the replacement text
extract_article_number_from_texto_nuevo(texto_nuevo) == numero_desde_texto(texto_nuevo)

\* accion_map: the normalized verb
accion_normalizada(accion) ==
    CASE accion = "sustituyese" -> "sustituye"
      [] accion = "incorporase" -> "incorpora"
      [] accion = "derogase" -> "deroga"
      [] accion = "modificase" -> "modifica"
      [] accion = "suprimese" -> "suprime"
      [] accion = "reemplazase" -> "reemplaza"
      [] accion = "crease" -> "crea"
      [] OTHER -> ""

construir_objetivo_accion(texto_nuevo, meta) ==
    LET destino_art_final ==
            IF meta.destino_articulo = <<>> /\ texto_nuevo # <<>>
            THEN extract_article_number_from_texto_nuevo(texto_nuevo)
            ELSE meta.destino_articulo
    IN  [tipo |-> IF meta.accion = "crease"
                     \/ (meta.accion = "incorporase" /\ meta.destino_articulo = <<>>)
                  THEN "nuevo" ELSE "modifica",
         accion |-> accion_normalizada(meta.accion),
         destino_articulo |-> destino_art_final,
         destino_inciso |-> meta.destino_inciso,
         destino_articulo_padre |-> meta.destino_articulo_padre,
         destino_capitulo |-> meta.destino_capitulo,
         texto_modificacion |-> texto_nuevo]

(***************************************************************************)
(* utils/enrich_dictamen_targets.py and utils/orchestrate_matching.py.     *)
(* A law number is a string; "" stands for None and for an absent key,     *)
(* which the source treats alike ("not current_ley", "if ley").            *)
(***************************************************************************)
\* the entries of LAW_MAPPING whose words occur in the modelled headers, in
\* the order of the dict
LAW_MAPPING ==
    <<[patron |-> <<"ley", "de", "contrato", "de", "trabajo">>, ley |-> "20744"],
      [patron |-> <<"ley", "N°", "24.013">>, ley |-> "24013"],
      [patron |-> <<"ley", "N°", "11.544">>, ley |-> "11544"]>>

Contains(tokens, patron) ==
    \E k \in 1..(Len(tokens) - Len(patron) + 1) :
        SubSeq(tokens, k, k + Len(patron) - 1) = patron

\* what \d{1,3}(?:\.?\d{3})* matches at the start of a number, dots removed:
\* of "20744" it matches "207"
numero_de_ley(tok) ==
    CASE tok = "20.744" -> "20744"
      [] tok = "24.013" -> "24013"
      [] tok = "11.544" -> "11544"
      [] tok = "20744" -> "207"
      [] tok = "123" -> "123"
      [] OTHER -> ""

\* len(number) >= 4
NumeroLargo(n) == n \in {"20744", "24013", "11544"}

\* the number after "ley", an optional "N°" between them
numero_tras_ley(tokens, k) ==
    IF k + 1 > Len(tokens) THEN ""
    ELSE IF tokens[k + 1] = "N°"
         THEN (IF k + 2 > Len(tokens) THEN "" ELSE numero_de_ley(tokens[k + 2]))
         ELSE numero_de_ley(tokens[k + 1])

detect_law(encabezado) ==
    LET EnTabla(k) == Contains(encabezado, LAW_MAPPING[k].patron)
        m == FirstFrom(EnTabla, 1, Len(LAW_MAPPING))
        EsLey(k) == encabezado[k] = "ley" /\ numero_tras_ley(encabezado, k) # ""
        l == FirstFrom(EsLey, 1, Len(encabezado))
        EsDecretoLey(k) ==
            /\ k > 1
            /\ encabezado[k - 1] = "decreto"
            /\ EsLey(k)
        d == FirstFrom(EsDecretoLey, 1, Len(encabezado))
    IN  IF m # 0 THEN LAW_MAPPING[m].ley
        ELSE IF l # 0 /\ NumeroLargo(numero_tras_ley(encabezado, l))
        THEN numero_tras_ley(encabezado, l)
        ELSE IF d # 0 THEN numero_tras_ley(encabezado, d)
        ELSE ""

\* the numbers of "los articulos 10, 16 y 21" from position k on
RECURSIVE lista_de_numeros(_, _)
lista_de_numeros(tokens, k) ==
    IF k > Len(tokens) THEN <<>>
    ELSE IF tokens[k] \in ArtNums THEN <<tokens[k]>> \o lista_de_numeros(tokens, k + 1)
    ELSE IF tokens[k] \in {"y", ","} THEN lista_de_numeros(tokens, k + 1)
    ELSE <<>>

\* fix_article_targets: the target the header names replaces the recorded
\* one.  A list of several members stands for its spelling with commas, the
\* one step 1 writes.  When the recorded target already is the list, step 1
\* does not return and step 2 goes on to compare the first number.
fix_article_targets(item) ==
    LET enc == item.encabezado
        EsLista(k) ==
            /\ enc[k] \in {"sustituyese", "derogase", "modificase"}
            /\ k + 3 <= Len(enc)
            /\ enc[k + 1] = "los"
            /\ enc[k + 2] = "articulos"
            /\ enc[k + 3] \in ArtNums
        ml == FirstFrom(EsLista, 1, Len(enc))
        EsUno(k) ==
            /\ enc[k] \in {"sustituyese", "derogase", "modificase", "incorporase"}
            /\ \/ /\ k + 2 <= Len(enc)
                  /\ enc[k + 1] \in ArtWord
                  /\ enc[k + 2] \in ArtNums
               \/ /\ k + 3 <= Len(enc)
                  /\ enc[k + 1] \in {"el", "los", "como"}
                  /\ enc[k + 2] \in ArtWord
                  /\ enc[k + 3] \in ArtNums
        mu == FirstFrom(EsUno, 1, Len(enc))
        uno == IF mu = 0 THEN <<>>
               ELSE IF enc[mu + 1] \in ArtWord THEN <<enc[mu + 2]>>
               ELSE <<enc[mu + 3]>>
    IN  IF ml # 0 /\ lista_de_numeros(enc, ml + 3) # item.destino_articulo
        THEN [item EXCEPT !.destino_articulo = lista_de_numeros(enc, ml + 3)]
        ELSE IF mu # 0 /\ uno # item.destino_articulo
        THEN [item EXCEPT !.destino_articulo = uno]
        ELSE item

\* the value fix_article_targets returns: True when it wrote the target
fix_returns(item) == fix_article_targets(item) # item

\* the body of "for item in data" of enrich_files
enrich_item(item, h) ==
    LET art_id == item.dictamen_articulo
        item1 == IF art_id \in DOMAIN h.law_replacements
                 THEN [item EXCEPT !.ley_numero = h.law_replacements[art_id]]
                 ELSE item
        match_data == h.manual_matches[art_id]
        detected == detect_law(item1.encabezado)
    IN  IF art_id \in DOMAIN h.manual_matches
        THEN [item1 EXCEPT
                !.ley_numero = IF "target_ley" \in DOMAIN match_data
                               THEN match_data.target_ley ELSE @,
                !.destino_articulo = IF "target_articulo" \in DOMAIN match_data
                                     THEN match_data.target_articulo ELSE @]
        ELSE IF art_id \in h.null_target_overrides
        THEN [item1 EXCEPT !.destino_articulo = <<>>, !.destino_inciso = "",
                           !.destino_capitulo = ""]
        ELSE IF item1.ley_numero \in {"", "UNKNOWN"}
        THEN fix_article_targets(
                 [item1 EXCEPT !.ley_numero = IF detected # "" THEN detected ELSE "UNKNOWN"])
        ELSE fix_article_targets(item1)

\* str(ley).replace(".", "").strip()
ley_clean(ley) ==
    CASE ley = "20.744" -> "20744"
      [] ley = "24.013" -> "24013"
      [] ley = "11.544" -> "11544"
      [] OTHER -> ley

\* articles_by_law after "articles_by_law[ley_clean].append(item)": a dict,
\* written as the sequence of its entries in insertion order
agregar(abl, item) ==
    LET law_id == ley_clean(item.ley_numero)
        Es(k) == abl[k].ley = law_id
        k0 == FirstFrom(Es, 1, Len(abl))
    IN  IF item.ley_numero \in {"", "UNKNOWN"} THEN abl
        ELSE IF k0 = 0 THEN Append(abl, [ley |-> law_id, operaciones |-> <<item>>])
        ELSE [abl EXCEPT ![k0].operaciones = Append(@, item)]

\* comparar_ley_dictamen_objects as one function of its inputs
comparacion_con(ley_data, cambios, articulos_incorporados) ==
    [metadatos |-> metadatos_de(cambios),
     titulos |-> [k \in 1..Len(ley_data.titulos) |->
                    insert_in_titulo(titulo_comparado(ley_data.titulos[k], cambios),
                                     articulos_incorporados)]]

comparacion_de(ley_data, cambios) ==
    comparacion_con(ley_data, cambios,
                    process_incorporated_articles(cambios.incorporaciones, ley_data))

comparar_ley_dictamen_objects(ley_data, dictamen_data) ==
    comparacion_de(ley_data, process_dictamen_changes(dictamen_data, ley_data))

\* the operations of the dictamen files, with the law number the parser left
Item(cambio, ley) == [ley_numero |-> ley] @@ cambio

iSust40 ==
    Item(Cambio("1", "sustituyese", <<"40">>, "", "", "",
                Enc("1", "sustituyese",
                    <<"el", "articulo", "40", "de", "la", "ley", "N°", "20.744">>),
                <<"ARTICULO", "40", "-", "Rubro", ".", "texto", "nuevo">>), "")

\* the header names no law
iDerNorma ==
    Item(Cambio("2", "derogase", <<>>, "", "", "",
                Enc("2", "derogase", <<"toda", "norma", "que", "se", "oponga">>), <<>>), "")

\* the header names a law by its number without dot
iDerLey ==
    Item(Cambio("3", "derogase", <<>>, "", "", "",
                Enc("3", "derogase", <<"la", "ley", "20744">>), <<>>), "UNKNOWN")

\* a law without normalized tree
iDer24013 ==
    Item(Cambio("4", "derogase", <<"5">>, "", "", "",
                Enc("4", "derogase",
                    <<"el", "articulo", "5", "de", "la", "ley", "N°", "24.013">>), <<>>), "")

\* an operation without action in a law that has a tree
iVacio ==
    Item(Cambio("5", SinAccion, <<>>, "", "", "",
                <<"ARTICULO", "5", "-", "texto", "de", "la", "ley", "N°", "11.544">>,
                <<>>), "")

\* the law number the parser left, with its dot
iDer1 ==
    Item(Cambio("6", "derogase", <<"1">>, "", "", "",
                Enc("6", "derogase",
                    <<"los", "articulos", "1", "y", "2", "de", "la", "ley", "de",
                      "contrato", "de", "trabajo">>), <<>>), "20.744")

Items == {iSust40, iDerNorma, iDerLey, iDer24013, iVacio, iDer1}

\* data/matching_heuristics.json
Heuristicas ==
    {[law_replacements |-> lr, manual_matches |-> mm, null_target_overrides |-> nt] :
        lr \in {<<>>, [x \in {"2"} |-> "20744"]},
        mm \in {<<>>, [x \in {"2"} |-> [target_articulo |-> <<"1">>]],
                [x \in {"3"} |-> [target_ley |-> "20744"]]},
        nt \in {{}, {"2"}, {"3"}}}

\* the laws that have a file data/normalized_ley_<id>.json
Normalizadas == {{}, {"20744"}, {"20744", "11544"}}

(***************************************************************************)
(* parsers/dictamen/parser.py: normalize_lines.                            *)
(* A raw line of the PDF is a sequence of characters.  The characters of   *)
(* the model are a few lower-case letters, upper-case letters, digits, the *)
(* hyphen, the blank and the tab.                                          *)
(***************************************************************************)
Minusculas == {"a", "c", "g", "i", "n", "o", "p", "t", "u"}

Mayusculas == {"A", "P", "S"}

Digitos == {"1", "2", "3", "5", "9"}

\* the characters "[ \t]" of the space pattern; str.strip() removes them too
Blancos == {" ", "\t"}

\* str.isalpha() of one character
isalpha(c) == c \in Minusculas \cup Mayusculas

RECURSIVE lstrip(_)
lstrip(ln) == IF ln # <<>> /\ Head(ln) \in Blancos THEN lstrip(Tail(ln)) ELSE ln

RECURSIVE rstrip(_)
rstrip(ln) ==
    IF ln # <<>> /\ ln[Len(ln)] \in Blancos THEN rstrip(SubSeq(ln, 1, Len(ln) - 1)) ELSE ln

\* re.sub(r"[ \t]+", " ", ln): every run of blanks and tabs becomes one blank
RECURSIVE colapsa_espacios(_)
colapsa_espacios(ln) ==
    IF ln = <<>> THEN <<>>
    ELSE IF Head(ln) \in Blancos
         THEN <<" ">> \o colapsa_espacios(lstrip(ln))
         ELSE <<Head(ln)>> \o colapsa_espacios(Tail(ln))

\* str.lower() of one character of the model
minuscula_de(c) ==
    IF c = "A" THEN "a" ELSE IF c = "P" THEN "p" ELSE IF c = "S" THEN "s" ELSE c

\* number of leading digits of ln
RECURSIVE digitos_iniciales(_)
digitos_iniciales(ln) ==
    IF ln # <<>> /\ Head(ln) \in Digitos THEN 1 + digitos_iniciales(Tail(ln)) ELSE 0

\* re.search(r"^\s*p[aa]gina\s+\d+", s, re.IGNORECASE) on the stripped line
es_pagina(s) ==
    /\ Len(s) >= 8
    /\ [k \in 1..6 |-> minuscula_de(s[k])] = <<"p", "a", "g", "i", "n", "a">>
    /\ s[7] \in Blancos
    /\ digitos_iniciales(lstrip(Drop(s, 6))) >= 1

\* re.search(r"^\s*\d+\s*$", s) on the stripped line
solo_numero(s) == s # <<>> /\ digitos_iniciales(s) = Len(s)

_is_probable_footer_header(line) ==
    LET s == rstrip(lstrip(line))
    IN  IF s = <<>> THEN FALSE ELSE es_pagina(s) \/ solo_numero(s)

\* the two list comprehensions that open normalize_lines
filtrar(raw) ==
    LET f == SelectSeq(raw, LAMBDA ln : ~_is_probable_footer_header(ln))
    IN  [k \in 1..Len(f) |-> rstrip(colapsa_espacios(f[k]))]

\* the join test of the loop: the line ends in a hyphen, a line follows, and
\* the following line, without its leading blanks, starts with a letter
se_une(lista, k) ==
    /\ lista[k] # <<>> /\ lista[k][Len(lista[k])] = "-"
    /\ k + 1 <= Len(lista)
    /\ LET nxt == lstrip(lista[k + 1])
       IN  nxt # <<>> /\ isalpha(Head(nxt))

\* line[:-1] + nxt
union_de(lista, k) == SubSeq(lista[k], 1, Len(lista[k]) - 1) \o lstrip(lista[k + 1])

\* the raw lines of the model
rContra == <<"c", "o", "n", "-">>

rTo == <<"t", "o">>

rEspTo == <<" ", "\t", "t", "o", " ">>

rArt == <<"A", "5", "-">>

rSust == <<"S", "u">>

rNum == <<" ", "1", "2">>

rPag == <<"P", "a", "g", "i", "n", "a", " ", "3">>

rDig == <<"9", "a">>

rGuion == <<"a", " ", " ", "-", " ">>

RawLines == {rContra, rTo, rEspTo, rArt, rSust, rNum, rPag, rDig, rGuion, <<>>}

(***************************************************************************)
(* parsers/dictamen/parser.py: extraer_ley_mejorada.                       *)
(* The text is a token sequence without line breaks; "" stands for None.   *)
(* The texts of the model mention at most one law number: every return of  *)
(* the block "if leyes_explicitas:" then gives that number.                *)
(***************************************************************************)
\* what "[0-9\.\-]+" captures from a token, "" when it captures nothing
numero_crudo(tok) ==
    IF tok \in {"20744", "20.744", "24013", "24.013", "-"} THEN tok ELSE ""

\* numero.replace(".", ""), "" when the result is not all digits
numero_normalizado(tok) ==
    CASE tok \in {"20744", "20.744"} -> "20744"
      [] tok \in {"24013", "24.013"} -> "24013"
      [] OTHER -> ""

\* the token a pattern "ley [n°] NUMBER" captures at position k, or ""
captura_ley(tokens, k) ==
    IF tokens[k] # "ley" \/ k + 1 > Len(tokens) THEN ""
    ELSE IF tokens[k + 1] = "N°"
         THEN (IF k + 2 > Len(tokens) THEN "" ELSE numero_crudo(tokens[k + 2]))
         ELSE numero_crudo(tokens[k + 1])

\* any(patron.search(texto) for patron in PATRONES_LEY_MEJORADOS)
tiene_ley_explicita(tokens) == \E k \in 1..Len(tokens) : captura_ley(tokens, k) # ""

\* the entries of LEY_NOMBRES_A_NUMEROS that are not a number pattern
LEY_NOMBRES_A_NUMEROS ==
    <<[nombre |-> <<"ley", "de", "contrato", "de", "trabajo">>, numero |-> "20744"],
      [nombre |-> <<"lct">>, numero |-> "20744"],
      [nombre |-> <<"ley", "de", "honorarios">>, numero |-> "27423"]>>

\* the numbers of leyes_explicitas
leyes_explicitas(tokens) ==
    ({numero_normalizado(captura_ley(tokens, k)) : k \in 1..Len(tokens)} \ {""})
    \cup {LEY_NOMBRES_A_NUMEROS[n].numero :
             n \in {m \in 1..Len(LEY_NOMBRES_A_NUMEROS) :
                       Contains(tokens, LEY_NOMBRES_A_NUMEROS[m].nombre)}}

\* "de la ley" starts at position j
de_la_ley(tokens, j) ==
    j + 2 <= Len(tokens) /\ SubSeq(tokens, j, j + 2) = <<"de", "la", "ley">>

\* PATRONES_LCT, in the order of the list
PATRONES_LCT(tokens) ==
    LET n == Len(tokens)
        verbo_articulo_ley(verbo) ==
            \E v, a, j \in 1..n :
                /\ v < a /\ a < j
                /\ tokens[v] = verbo
                /\ tokens[a] \in ArtWord
                /\ de_la_ley(tokens, j)
    IN  \/ Contains(tokens, <<"ley", "de", "contrato", "de", "trabajo">>)
        \/ \E a, j \in 1..n :
              /\ a + 1 < j
              /\ tokens[a] \in {"ARTICULO", "articulo"}
              /\ tokens[a + 1] \in ArtNums
              /\ de_la_ley(tokens, j)
        \/ verbo_articulo_ley("sustituyese")
        \/ verbo_articulo_ley("modificase")
        \/ verbo_articulo_ley("incorporase")

\* re.search(r"(?:de\s+la\s+ley|esta\s+ley)", texto_lower)
menciona_la_ley(tokens) ==
    Contains(tokens, <<"de", "la", "ley">>) \/ Contains(tokens, <<"esta", "ley">>)

extraer_ley_mejorada(tokens, contexto) ==
    LET explicitas == leyes_explicitas(tokens)
        por_patron == PATRONES_LCT(tokens)
        por_titulo ==
            /\ contexto = "I"
            /\ menciona_la_ley(tokens)
            /\ ~tiene_ley_explicita(tokens)
    IN  IF tokens = <<>> THEN ""
        ELSE IF explicitas # {} THEN CHOOSE x \in explicitas : TRUE
        ELSE IF por_patron \/ por_titulo THEN "20744"
        ELSE ""

(***************************************************************************)
(* State.                                                                  *)
(***************************************************************************)
VARIABLES
    pc,             \* the step the run is at
    ley_data,       \* the normalized law
    dictamen_data,  \* the operation list
    idx,            \* index of the next operation to process
    cambios,        \* the indexes process_dictamen_changes builds
    comparacion,    \* the comparison document
    primera,        \* the document an earlier invocation on the same objects returned
    match,          \* the MatchResult process_dictamen_data builds
    listado,        \* the result of get_derogated_chapter_articles
    consulta,       \* the article asked for and the operation found for it
    lines,          \* the normalized lines of the dictamen
    linea,          \* index of the line parse_dictamen is at (i of the source)
    articulos,      \* the operations parse_dictamen has sealed
    current,        \* the current_* and capturing_* variables of parse_dictamen
    heuristics,     \* the content of data/matching_heuristics.json
    normalizadas,   \* the laws that have a normalized tree on disk
    articles_by_law,\* the operations orchestrate groups by law
    salidas,        \* what orchestrate did with each law, in order
    raw_lines,      \* the lines handed to normalize_lines
    filtered,       \* the list normalize_lines filters and joins
    joined,         \* the list normalize_lines returns
    indice,         \* index of the line the join loop is at (i of the source)
    numero_articulo,\* the article number handed to find_titulo_for_article
    titulo_destino, \* the numero of the title find_titulo_for_article returned
    texto,          \* the text handed to extraer_ley_mejorada
    contexto_titulo,\* the title context handed to extraer_ley_mejorada
    ley_afectada,   \* the law number extraer_ley_mejorada returned
    registro,       \* the operation record handed to fix_article_targets (item)
    retornos,       \* what each application of fix_article_targets returned
    destinos        \* destino_articulo after each application

vars ==
    <<pc, ley_data, dictamen_data, idx, cambios, comparacion, primera, match, listado,
      consulta, lines, linea, articulos, current,
      heuristics, normalizadas, articles_by_law, salidas,
      raw_lines, filtered, joined, indice, numero_articulo, titulo_destino,
      texto, contexto_titulo, ley_afectada, registro, retornos, destinos>>

varsCmp == <<cambios, comparacion, primera>>

varsMatch == <<match, listado, consulta>>

varsParser == <<lines, linea, articulos, current>>

varsOrq == <<heuristics, normalizadas, articles_by_law, salidas>>

varsNormalizar == <<raw_lines, filtered, joined, indice>>

varsTitulo == <<numero_articulo, titulo_destino>>

varsLey == <<texto, contexto_titulo, ley_afectada>>

varsFix == <<registro, retornos, destinos>>

varsFun == <<varsNormalizar, varsTitulo, varsLey, varsFix>>

varsRec ==
    <<ley_data, dictamen_data, idx, cambios, comparacion, primera, match, listado, consulta,
      heuristics, normalizadas, articles_by_law, salidas, varsFun>>

current_vacio ==
    [titulo |-> "", encabezado |-> <<>>, encabezado_completo |-> <<>>,
     texto_intermedio |-> <<>>, texto_nuevo |-> <<>>, meta |-> meta_vacia,
     dictamen_art |-> "", capturing_new_text |-> FALSE, capturing_header |-> FALSE]

\* the parser variables of a run that does not parse
SinParser ==
    /\ lines = <<>>
    /\ linea = 1
    /\ articulos = <<>>
    /\ current = current_vacio

sin_consulta == [numero |-> "", cambio |-> <<>>]

sin_heuristicas ==
    [law_replacements |-> <<>>, manual_matches |-> <<>>, null_target_overrides |-> {}]

SinOrq ==
    /\ heuristics = sin_heuristicas
    /\ normalizadas = {}
    /\ articles_by_law = <<>>
    /\ salidas = <<>>

\* the value of titulo_destino before find_titulo_for_article has returned
sin_titulo == [ty |-> "pending", v |-> ""]

SinTitulo ==
    /\ numero_articulo = ""
    /\ titulo_destino = sin_titulo

SinNormalizar ==
    /\ raw_lines = <<>>
    /\ filtered = <<>>
    /\ joined = <<>>
    /\ indice = 0

SinLey ==
    /\ texto = <<>>
    /\ contexto_titulo = ""
    /\ ley_afectada = "pending"

\* the variables of the function-level runs in a run that calls none of them
SinFix ==
    /\ registro = <<>>
    /\ retornos = <<>>
    /\ destinos = <<>>

SinFun == SinNormalizar /\ SinTitulo /\ SinLey /\ SinFix

sin_resultado == [metadatos |-> <<>>, titulos |-> <<>>]

(***************************************************************************)
(* The copies the walk makes are shallow (dict.copy()): a copy holds the   *)
(* very lists of the node it copies, except under the keys the walk binds  *)
(* to a new list afterwards.  The insertion appends to, and sorts, the     *)
(* lists of the comparison in place, so a list the comparison shared with  *)
(* the law would change in the law as well.                                *)
(***************************************************************************)
listas_de(nodo) == DOMAIN nodo \cap {"articulos", "capitulos"}

copia_sin_listas_nuevas(titulo) == listas_de(titulo)

copia_de_capitulo_sin_lista_nueva(capitulo) == listas_de(capitulo)

\* titulo_comparado = titulo.copy(), then 'articulos' and 'capitulos' are rebound
listas_compartidas_titulo(titulo) ==
    listas_de(titulo) \ {"articulos", "capitulos"}

\* capitulo_comparado = capitulo.copy(), then 'articulos' is rebound in each branch
listas_compartidas_capitulo(capitulo) ==
    listas_de(capitulo) \ {"articulos"}

\* the law as the in-place insertion and sort leave it
ley_tras_insercion(ley, titulos) ==
    [titulos |-> [k \in 1..Len(ley.titulos) |->
        [numero |-> ley.titulos[k].numero,
         articulos |->
            IF "articulos" \in listas_compartidas_titulo(ley.titulos[k])
            THEN titulos[k].articulos ELSE ley.titulos[k].articulos,
         capitulos |->
            IF "capitulos" \in listas_compartidas_titulo(ley.titulos[k])
            THEN titulos[k].capitulos
            ELSE [c \in 1..Len(ley.titulos[k].capitulos) |->
                    [numero |-> ley.titulos[k].capitulos[c].numero,
                     articulos |->
                        IF "articulos" \in
                              listas_compartidas_capitulo(ley.titulos[k].capitulos[c])
                        THEN titulos[k].capitulos[c].articulos
                        ELSE ley.titulos[k].capitulos[c].articulos]]]]]

(***************************************************************************)
(* comparar_ley_dictamen_objects as a state machine.                       *)
(***************************************************************************)
InitCmp ==
    /\ pc = "process"
    /\ ley_data \in Leyes
    /\ dictamen_data \in SeqsUpTo(Cambios, MaxOps)
    /\ idx = 1
    /\ cambios = cambios_vacios
    /\ comparacion = sin_resultado
    /\ primera = sin_resultado
    /\ match = match_vacio
    /\ listado = <<>>
    /\ consulta = sin_consulta
    /\ SinParser
    /\ SinOrq
    /\ SinFun

\* one iteration of the loop of process_dictamen_changes
ProcessCambio ==
    /\ pc = "process"
    /\ idx <= Len(dictamen_data)
    /\ ~lower_raises(dictamen_data[idx])
    /\ cambios' = process_cambio(cambios, dictamen_data[idx], ley_data)
    /\ idx' = idx + 1
    /\ UNCHANGED <<pc, ley_data, dictamen_data, comparacion, primera, varsMatch, varsParser, varsOrq, varsFun>>

\* the metadata and the walk over the titles of the law
BuildComparacion ==
    /\ pc = "process"
    /\ idx > Len(dictamen_data)
    /\ comparacion' =
          [metadatos |-> metadatos_de(cambios),
           titulos |-> [k \in 1..Len(ley_data.titulos) |->
                          titulo_comparado(ley_data.titulos[k], cambios)]]
    /\ pc' = "insert"
    /\ UNCHANGED <<ley_data, dictamen_data, idx, cambios, primera, varsMatch, varsParser, varsOrq, varsFun>>

\* the insertion of the incorporated articles and the sort
InsertIncorporados ==
    /\ pc = "insert"
    /\ LET articulos_incorporados ==
               process_incorporated_articles(cambios.incorporaciones, ley_data)
       IN  comparacion' =
              [comparacion EXCEPT !.titulos =
                  [k \in 1..Len(@) |-> insert_in_titulo(@[k], articulos_incorporados)]]
    /\ ley_data' = ley_tras_insercion(ley_data, comparacion'.titulos)
    /\ pc' = "done"
    /\ UNCHANGED <<dictamen_data, idx, cambios, primera, varsMatch, varsParser, varsOrq, varsFun>>

NextCmp == ProcessCambio \/ BuildComparacion \/ InsertIncorporados

SpecCmp == InitCmp /\ [][NextCmp]_vars

(***************************************************************************)
(* comparar_ley_dictamen_objects on operation lists that hold malformed    *)
(* records.  An exception leaves the function: no document is returned.    *)
(***************************************************************************)
InitMal ==
    /\ pc = "process"
    /\ ley_data \in Leyes
    /\ dictamen_data \in SeqsUpTo(Cambios \cup Malformadas, MaxOps)
    /\ idx = 1
    /\ cambios = cambios_vacios
    /\ comparacion = sin_resultado
    /\ primera = sin_resultado
    /\ match = match_vacio
    /\ listado = <<>>
    /\ consulta = sin_consulta
    /\ SinParser
    /\ SinOrq
    /\ SinFun

\* the iteration of the loop of process_dictamen_changes that raises
ProcessCambioRaises ==
    /\ pc = "process"
    /\ idx <= Len(dictamen_data)
    /\ lower_raises(dictamen_data[idx])
    /\ pc' = "raised"
    /\ UNCHANGED <<ley_data, dictamen_data, idx, cambios, comparacion, primera,
                   varsMatch, varsParser, varsOrq, varsFun>>

NextMal == ProcessCambio \/ ProcessCambioRaises \/ BuildComparacion \/ InsertIncorporados

SpecMal == InitMal /\ [][NextMal]_vars

(***************************************************************************)
(* comparar_ley_dictamen_objects on dictamens that incorporate articles:   *)
(* several incorporations for one title, with and without an article of    *)
(* the same base number in a chapter, and a law whose title number is a    *)
(* JSON integer.                                                           *)
(***************************************************************************)
cInc90 ==
    Cambio("6", "incorporase", <<"90">>, "", "", "",
           Enc("6", "incorporase", <<"como", "articulo", "90">>),
           <<"ARTICULO", "90", "-", "Rubro", ".", "texto", "noventa">>)

\* a law whose only title has the number 1 stored as an integer
LeyEntera ==
    [titulos |-> <<
        Tit([ty |-> "int", v |-> "1"], <<Art("1", <<"t1">>), Art("2", <<"t2">>)>>, <<>>)>>]

Incorporadoras == {cInc40bis, cInc3, cInc90, cSust40, cDer40}

InitInc ==
    /\ pc = "process"
    /\ ley_data \in {LeyA, LeyB, LeyEntera}
    /\ dictamen_data \in SeqsUpTo(Incorporadoras, MaxOps)
    /\ idx = 1
    /\ cambios = cambios_vacios
    /\ comparacion = sin_resultado
    /\ primera = sin_resultado
    /\ match = match_vacio
    /\ listado = <<>>
    /\ consulta = sin_consulta
    /\ SinParser
    /\ SinOrq
    /\ SinFun

SpecInc == InitInc /\ [][NextCmp]_vars

(***************************************************************************)
(* comparar_ley_dictamen_objects on chapter derogations that name the      *)
(* title of the chapter, over laws whose titles repeat a chapter number.   *)
(***************************************************************************)
\* "Derogase el Capitulo I del Titulo II": what parse_action_and_target
\* keeps of it is destino_capitulo = "I"
cDerCapIdeII ==
    Cambio("7", "derogase", <<>>, "I", "", "",
           Enc("7", "derogase", <<"el", "capitulo", "I", "del", "titulo", "II">>), <<>>)

DeCapitulos == {cDerCapIdeII, cDerCapVIII, cSust40, cDer40, cInc40bis}

InitCapitulo ==
    /\ pc = "process"
    /\ ley_data \in {LeyA, LeyB}
    /\ dictamen_data \in SeqsUpTo(DeCapitulos, MaxOps)
    /\ idx = 1
    /\ cambios = cambios_vacios
    /\ comparacion = sin_resultado
    /\ primera = sin_resultado
    /\ match = match_vacio
    /\ listado = <<>>
    /\ consulta = sin_consulta
    /\ SinParser
    /\ SinOrq
    /\ SinFun

SpecCapitulo == InitCapitulo /\ [][NextCmp]_vars

(***************************************************************************)
(* enrich_files, then orchestrate, on one dictamen file.  dictamen_data is *)
(* the content of the file, which enrich_files rewrites and orchestrate    *)
(* reads.  Every normalized law on disk is LeyA.                           *)
(***************************************************************************)
InitOrq ==
    /\ pc = "enrich"
    /\ dictamen_data \in SeqsUpTo(Items, MaxOps)
    /\ heuristics \in Heuristicas
    /\ normalizadas \in Normalizadas
    /\ articles_by_law = <<>>
    /\ salidas = <<>>
    /\ idx = 1
    /\ ley_data = [titulos |-> <<>>]
    /\ cambios = cambios_vacios
    /\ comparacion = sin_resultado
    /\ primera = sin_resultado
    /\ match = match_vacio
    /\ listado = <<>>
    /\ consulta = sin_consulta
    /\ SinParser
    /\ SinFun

varsNoOrq == <<ley_data, cambios, comparacion, primera, varsMatch, varsParser, varsFun>>

\* one iteration of "for item in data" of enrich_files
EnrichItem ==
    /\ pc = "enrich"
    /\ idx <= Len(dictamen_data)
    /\ dictamen_data' = [dictamen_data EXCEPT ![idx] = enrich_item(@, heuristics)]
    /\ idx' = idx + 1
    /\ UNCHANGED <<pc, varsOrq, varsNoOrq>>

\* enrich_files returns; orchestrate starts
EnrichDone ==
    /\ pc = "enrich"
    /\ idx > Len(dictamen_data)
    /\ pc' = "aggregate"
    /\ idx' = 1
    /\ UNCHANGED <<dictamen_data, varsOrq, varsNoOrq>>

\* one iteration of "for item in data" of orchestrate
Aggregate ==
    /\ pc = "aggregate"
    /\ idx <= Len(dictamen_data)
    /\ articles_by_law' = agregar(articles_by_law, dictamen_data[idx])
    /\ idx' = idx + 1
    /\ UNCHANGED <<pc, dictamen_data, heuristics, normalizadas, salidas, varsNoOrq>>

AggregateDone ==
    /\ pc = "aggregate"
    /\ idx > Len(dictamen_data)
    /\ pc' = "laws"
    /\ idx' = 1
    /\ UNCHANGED <<dictamen_data, varsOrq, varsNoOrq>>

\* "Skipping Law ...: Normalized file not found."
SkipLaw ==
    /\ pc = "laws"
    /\ idx <= Len(articles_by_law)
    /\ articles_by_law[idx].ley \notin normalizadas
    /\ salidas' = Append(salidas, [ley |-> articles_by_law[idx].ley,
                                   resultado |-> "skipped",
                                   comparacion |-> sin_resultado])
    /\ idx' = idx + 1
    /\ UNCHANGED <<pc, dictamen_data, heuristics, normalizadas, articles_by_law, varsNoOrq>>

\* the comparison of a law is written to data/comparacion_global_ley_<id>.json
ProcessLaw ==
    /\ pc = "laws"
    /\ idx <= Len(articles_by_law)
    /\ articles_by_law[idx].ley \in normalizadas
    /\ \A k \in 1..Len(articles_by_law[idx].operaciones) :
           ~lower_raises(articles_by_law[idx].operaciones[k])
    /\ salidas' = Append(salidas,
                         [ley |-> articles_by_law[idx].ley,
                          resultado |-> "written",
                          comparacion |->
                              comparar_ley_dictamen_objects(
                                  LeyA, articles_by_law[idx].operaciones)])
    /\ idx' = idx + 1
    /\ UNCHANGED <<pc, dictamen_data, heuristics, normalizadas, articles_by_law, varsNoOrq>>

\* "except Exception as e: print(f'Error processing Law ...')"
LawRaises ==
    /\ pc = "laws"
    /\ idx <= Len(articles_by_law)
    /\ articles_by_law[idx].ley \in normalizadas
    /\ \E k \in 1..Len(articles_by_law[idx].operaciones) :
           lower_raises(articles_by_law[idx].operaciones[k])
    /\ salidas' = Append(salidas, [ley |-> articles_by_law[idx].ley,
                                   resultado |-> "error",
                                   comparacion |-> sin_resultado])
    /\ idx' = idx + 1
    /\ UNCHANGED <<pc, dictamen_data, heuristics, normalizadas, articles_by_law, varsNoOrq>>

OrchestrateDone ==
    /\ pc = "laws"
    /\ idx > Len(articles_by_law)
    /\ pc' = "end"
    /\ UNCHANGED <<dictamen_data, idx, varsOrq, varsNoOrq>>

NextOrq ==
    \/ EnrichItem \/ EnrichDone \/ Aggregate \/ AggregateDone
    \/ SkipLaw \/ ProcessLaw \/ LawRaises \/ OrchestrateDone

SpecOrq == InitOrq /\ [][NextOrq]_vars

(***************************************************************************)
(* The matcher as a state machine: process_dictamen_data, then the two     *)
(* accessors a consumer calls on its result.                               *)
(***************************************************************************)
InitMatch ==
    /\ pc = "match"
    /\ ley_data \in Leyes
    /\ dictamen_data \in SeqsUpTo(Cambios, MaxOps)
    /\ idx = 1
    /\ cambios = cambios_vacios
    /\ comparacion = sin_resultado
    /\ primera = sin_resultado
    /\ match = match_vacio
    /\ listado = <<>>
    /\ consulta = sin_consulta
    /\ SinParser
    /\ SinOrq
    /\ SinFun

\* one iteration of the loop of process_dictamen_data
MatchCambio ==
    /\ pc = "match"
    /\ idx <= Len(dictamen_data)
    /\ match' = match_cambio(match, dictamen_data[idx], ley_data)
    /\ idx' = idx + 1
    /\ UNCHANGED <<pc, ley_data, dictamen_data, listado, consulta, varsCmp, varsParser, varsOrq, varsFun>>

\* the end of process_dictamen_data
BuildMatchResult ==
    /\ pc = "match"
    /\ idx > Len(dictamen_data)
    /\ match' = [match EXCEPT !.incorporated_articles =
                    get_incorporated_articles(dictamen_data, ley_data)]
    /\ pc' = "matched"
    /\ UNCHANGED <<ley_data, dictamen_data, idx, listado, consulta, varsCmp, varsParser, varsOrq, varsFun>>

GetDerogatedChapterArticles ==
    /\ pc = "matched"
    /\ listado' = get_derogated_chapter_articles(match.derogated_chapters, match.chapter_keys)
    /\ pc' = "listed"
    /\ UNCHANGED <<ley_data, dictamen_data, idx, match, consulta, varsCmp, varsParser, varsOrq, varsFun>>

GetCambioForArticulo ==
    /\ pc = "listed"
    /\ \E a \in Range(AllArts(ley_data.titulos)) :
          consulta' = [numero |-> a.numero,
                       cambio |-> get_cambio_for_articulo(dictamen_data, a.numero)]
    /\ pc' = "asked"
    /\ UNCHANGED <<ley_data, dictamen_data, idx, match, listado, varsCmp, varsParser, varsOrq, varsFun>>

NextMatch == MatchCambio \/ BuildMatchResult \/ GetDerogatedChapterArticles \/ GetCambioForArticulo

SpecMatch == InitMatch /\ [][NextMatch]_vars

(***************************************************************************)
(* parsers/dictamen/parser.py: parse_dictamen as a state machine, one      *)
(* action per branch of its loop.                                          *)
(***************************************************************************)
\* longest dictamen, in lines
MaxLines == 4

hSustGatillo ==
    <<"ARTICULO", "5", "-", "sustituyese", "el", "articulo", "30", "por", "el",
      "siguiente", ":", "ARTICULO", "30", ".-", "Texto", "nuevo">>

hSust == <<"ARTICULO", "5", "-", "sustituyese", "el", "articulo", "30", "de", "la", "ley", "20744">>

lGatillo == <<"por", "el", "siguiente", ":", "ARTICULO", "31", ".-", "Texto">>

lTexto == <<"a)", "Lo", "previsto", "en", "el", "articulo", "12", ".">>

hInciso == <<"ARTICULO", "7", "-", "sustituyese", "el", "inciso", "a)", "del", "articulo", "5">>

hDerLey == <<"ARTICULO", "90", "-", "derogase", "la", "ley", "24013">>

hInc == <<"ARTICULO", "91", "-", "incorporase", "a", "la", "ley", "20744">>

hDerCap == <<"ARTICULO", "7", "-", "derogase", "el", "capitulo", "VIII">>

lCapitulo == <<"CAPITULO", "II">>

lTitulo == <<"TITULO", "II">>

\* a line of replacement text that opens an article of the law
lArticulo == <<"ARTICULO", "31", "-", "Texto">>

\* a line of text that mentions a title of the law
lMencion == <<"conforme", "al", "titulo", "III", "de", "la", "ley">>

Lineas ==
    {hSustGatillo, hSust, lGatillo, lTexto, hInciso, hDerLey, hInc, hDerCap,
     lCapitulo, lTitulo, lArticulo, lMencion, <<>>}

\* "\n".join(parts)
RECURSIVE JoinNL(_)
JoinNL(parts) ==
    IF parts = <<>> THEN <<>>
    ELSE IF Len(parts) = 1 THEN parts[1]
    ELSE parts[1] \o <<"NL">> \o JoinNL(Tail(parts))

\* finalizar_articulo_actual without the reset of the state: the sealed
\* operation stays open
finalizar_sin_reset(arts, cur) ==
    IF cur.dictamen_art = "" THEN [articulos |-> arts, current |-> cur]
    ELSE [articulos |->
              Append(arts,
                     [dictamen_articulo |-> cur.dictamen_art,
                      titulo |-> IF cur.titulo = "" THEN "SIN_TITULO" ELSE cur.titulo,
                      texto_completo |->
                          Strip(JoinNL(cur.encabezado_completo \o cur.texto_intermedio
                                       \o cur.texto_nuevo)),
                      objetivo_accion |->
                          construir_objetivo_accion(Strip(JoinNL(cur.texto_nuevo)), cur.meta)]),
          current |-> cur]

\* finalizar_articulo_actual: the sealed operations and the reset state
finalizar_articulo_actual(arts, cur) ==
    IF cur.dictamen_art = "" THEN [articulos |-> arts, current |-> cur]
    ELSE
      LET texto_completo ==
              Strip(JoinNL(cur.encabezado_completo \o cur.texto_intermedio \o cur.texto_nuevo))
          texto_nuevo_str == Strip(JoinNL(cur.texto_nuevo))
          articulo ==
              [dictamen_articulo |-> cur.dictamen_art,
               titulo |-> IF cur.titulo = "" THEN "SIN_TITULO" ELSE cur.titulo,
               texto_completo |-> texto_completo,
               objetivo_accion |-> construir_objetivo_accion(texto_nuevo_str, cur.meta)]
      IN  [articulos |-> Append(arts, articulo),
           current |-> [current_vacio EXCEPT !.titulo = cur.titulo]]

EnCurso == current.dictamen_art # ""

Parsing == pc = "parse" /\ linea <= Len(lines)

EsTitulo == TITULO_RE_ANYWHERE(lines[linea]) # 0

EsDelimitador == STRUCT_RE(lines[linea]) /\ EnCurso /\ current.capturing_new_text

\* the line is taken by "if HEADER_RE.match(line)" and its continue
EsEncabezado ==
    HEADER_RE(lines[linea]) /\ (is_dictamen_header(lines, linea).es_dictamen \/ EnCurso)

\* ^\s*\d+\s*$
SoloNumero(line) == Len(line) = 1 /\ line[1] \in ArtNums \ {"40 bis"}

\* the automatic start of the new text of an incorporation
InicioAutomatico ==
    LET line == lines[linea]
        next_line == lines[linea + 1]
    IN  /\ current.meta.accion = "incorporase"
        /\ ~HEADER_RE(line)
        /\ line # <<>>
        /\ linea < Len(lines)
        /\ next_line # <<>>
        /\ ~STRUCT_RE(next_line)
        /\ ~TITULO_RE(next_line)
        /\ ~SoloNumero(line)

InitParser ==
    /\ pc = "parse"
    /\ lines \in SeqsUpTo(Lineas, MaxLines)
    /\ linea = 1
    /\ articulos = <<>>
    /\ current = current_vacio
    /\ ley_data = [titulos |-> <<>>]
    /\ dictamen_data = <<>>
    /\ idx = 1
    /\ cambios = cambios_vacios
    /\ comparacion = sin_resultado
    /\ primera = sin_resultado
    /\ match = match_vacio
    /\ listado = <<>>
    /\ consulta = sin_consulta
    /\ SinOrq
    /\ SinFun

\* a line that names a title: seals the operation and sets the title context
TituloLine ==
    /\ Parsing
    /\ EsTitulo
    /\ LET f == finalizar_articulo_actual(articulos, current)
           k == TITULO_RE_ANYWHERE(lines[linea])
       IN  /\ articulos' = f.articulos
           /\ current' = [f.current EXCEPT !.titulo = lines[linea][k + 1]]
    /\ linea' = linea + 1
    /\ UNCHANGED <<pc, lines, varsRec>>

\* a structural heading while new text is captured: seals the operation
StructLine ==
    /\ Parsing
    /\ ~EsTitulo
    /\ EsDelimitador
    /\ LET f == IF ~TITULO_RE(lines[linea])
                THEN finalizar_articulo_actual(articulos, current)
                ELSE [articulos |-> articulos, current |-> current]
       IN  articulos' = f.articulos /\ current' = f.current
    /\ linea' = linea + 1
    /\ UNCHANGED <<pc, lines, varsRec>>

\* the header of an operation: seals the previous one and starts a new one
DictamenHeader ==
    /\ Parsing
    /\ ~EsTitulo
    /\ ~EsDelimitador
    /\ HEADER_RE(lines[linea])
    /\ LET h == is_dictamen_header(lines, linea)
           f == finalizar_articulo_actual(articulos, current)
       IN  /\ h.es_dictamen
           /\ articulos' = f.articulos
           /\ current' =
                 [f.current EXCEPT
                    !.dictamen_art = lines[linea][2],
                    !.encabezado = h.combined,
                    !.encabezado_completo = <<h.combined>>,
                    !.meta = parse_action_and_target(h.combined),
                    !.capturing_header = ~h.gatillo_encontrado,
                    !.capturing_new_text = h.gatillo_encontrado]
           /\ linea' = h.j
    /\ UNCHANGED <<pc, lines, varsRec>>

\* an "ARTICULO N -" line without operative verb inside an operation
TextHeaderLine ==
    /\ Parsing
    /\ ~EsTitulo
    /\ ~EsDelimitador
    /\ HEADER_RE(lines[linea])
    /\ ~is_dictamen_header(lines, linea).es_dictamen
    /\ EnCurso
    /\ current' =
          IF current.capturing_new_text
          THEN [current EXCEPT !.texto_nuevo = Append(@, lines[linea])]
          ELSE IF current.capturing_header
          THEN [current EXCEPT !.texto_intermedio = Append(@, lines[linea])]
          ELSE current
    /\ linea' = linea + 1
    /\ UNCHANGED <<pc, lines, articulos, varsRec>>

\* a trigger phrase found by the main loop
TriggerLine ==
    /\ Parsing
    /\ ~EsTitulo
    /\ ~EsDelimitador
    /\ ~EsEncabezado
    /\ EnCurso
    /\ ~current.capturing_new_text
    /\ TRIGGER_RE(lines[linea]) # 0
    /\ LET line == lines[linea]
           mt == TRIGGER_RE(line)
           before == SubSeq(line, 1, mt - 1)
           after == Drop(line, mt + trigger_len(line, mt) - 1)
       IN  current' =
              [current EXCEPT
                 !.capturing_new_text = TRUE,
                 !.capturing_header = FALSE,
                 !.texto_intermedio = IF before # <<>> THEN Append(@, before) ELSE @,
                 !.texto_nuevo = IF after # <<>> THEN Append(@, after) ELSE @]
    /\ linea' = linea + 1
    /\ UNCHANGED <<pc, lines, articulos, varsRec>>

\* an incorporation whose new text starts without a trigger phrase
AutoCapture ==
    /\ Parsing
    /\ ~EsTitulo
    /\ ~EsDelimitador
    /\ ~EsEncabezado
    /\ EnCurso
    /\ ~current.capturing_new_text
    /\ TRIGGER_RE(lines[linea]) = 0
    /\ InicioAutomatico
    /\ current' = [current EXCEPT !.capturing_new_text = TRUE,
                                  !.capturing_header = FALSE,
                                  !.texto_nuevo = Append(@, lines[linea])]
    /\ linea' = linea + 1
    /\ UNCHANGED <<pc, lines, articulos, varsRec>>

\* every other line: captured according to the state
OtherLine ==
    /\ Parsing
    /\ ~EsTitulo
    /\ ~EsDelimitador
    /\ ~EsEncabezado
    /\ ~(EnCurso /\ ~current.capturing_new_text
         /\ (TRIGGER_RE(lines[linea]) # 0 \/ InicioAutomatico))
    /\ LET s == lines[linea]
           next_line == lines[linea + 1]
       IN  current' =
             IF ~EnCurso THEN current
             ELSE IF current.capturing_new_text
             THEN (IF s # <<>> THEN [current EXCEPT !.texto_nuevo = Append(@, s)]
                   ELSE IF current.texto_nuevo # <<>>
                           /\ current.texto_nuevo[Len(current.texto_nuevo)] # <<>>
                   THEN [current EXCEPT !.texto_nuevo = Append(@, <<>>)]
                   ELSE current)
             ELSE IF current.capturing_header
             THEN (IF s = <<>> THEN current
                   ELSE [current EXCEPT
                           !.encabezado_completo = Append(@, s),
                           !.capturing_header =
                               ~(/\ linea < Len(lines)
                                 /\ OP_VERB_RE(next_line) = 0
                                 /\ TRIGGER_RE(next_line) = 0)])
             ELSE (IF s # <<>> THEN [current EXCEPT !.texto_intermedio = Append(@, s)]
                   ELSE current)
    /\ linea' = linea + 1
    /\ UNCHANGED <<pc, lines, articulos, varsRec>>

\* the end of the lines: seals the operation in course
CierreFinal ==
    /\ pc = "parse"
    /\ linea > Len(lines)
    /\ LET f == finalizar_articulo_actual(articulos, current)
       IN  articulos' = f.articulos /\ current' = f.current
    /\ pc' = "parsed"
    /\ UNCHANGED <<lines, linea, varsRec>>

NextParser ==
    \/ TituloLine
    \/ StructLine
    \/ DictamenHeader
    \/ TextHeaderLine
    \/ TriggerLine
    \/ AutoCapture
    \/ OtherLine
    \/ CierreFinal

SpecParser == InitParser /\ [][NextParser]_vars

(***************************************************************************)
(* parse_dictamen on documents long enough for a header to take all the    *)
(* continuation lines it may take: a header, the verb on the next line or  *)
(* not, and up to MaxCola lines of text, trigger phrases and blank lines.  *)
(* The loop of parse_dictamen runs to its end: weak fairness of its step.  *)
(***************************************************************************)
MaxCola == 6

\* short documents over the whole vocabulary, parsed alongside the long ones
MaxCortos == 3

\* "ARTICULO N -" alone on its line: the verb comes on the next line
hSolo == <<"ARTICULO", "5", "-">>

lVerbo == <<"sustituyese", "el", "articulo", "30">>

\* a line of text without article reference
lSigue == <<"texto">>

Continuaciones == {lSigue, lGatillo, <<>>}

Largos ==
    {<<h>> \o v \o c : h \in {hSust, hInc, hSolo}, v \in {<<>>, <<lVerbo>>},
                       c \in SeqsUpTo(Continuaciones, MaxCola)}

InitLargo ==
    /\ pc = "parse"
    /\ lines \in SeqsUpTo(Lineas, MaxCortos) \cup Largos
    /\ linea = 1
    /\ articulos = <<>>
    /\ current = current_vacio
    /\ ley_data = [titulos |-> <<>>]
    /\ dictamen_data = <<>>
    /\ idx = 1
    /\ cambios = cambios_vacios
    /\ comparacion = sin_resultado
    /\ primera = sin_resultado
    /\ match = match_vacio
    /\ listado = <<>>
    /\ consulta = sin_consulta
    /\ SinOrq
    /\ SinFun

SpecLargo == InitLargo /\ [][NextParser]_vars /\ WF_vars(NextParser)

(***************************************************************************)
(* normalize_lines as a state machine: the filter, then one step per       *)
(* iteration of "while i < len(filtered)".  indice is i of the source,    *)
(* counted from 1.                                                         *)
(***************************************************************************)
MaxRaw == 3

varsNoFun ==
    <<ley_data, dictamen_data, idx, cambios, comparacion, primera, varsMatch,
      varsParser, varsOrq>>

InitNorm ==
    /\ pc = "filter"
    /\ raw_lines \in SeqsUpTo(RawLines, MaxRaw)
    /\ filtered = <<>>
    /\ joined = <<>>
    /\ indice = 1
    /\ SinTitulo
    /\ SinLey
    /\ SinFix
    /\ ley_data = [titulos |-> <<>>]
    /\ dictamen_data = <<>>
    /\ idx = 1
    /\ cambios = cambios_vacios
    /\ comparacion = sin_resultado
    /\ primera = sin_resultado
    /\ match = match_vacio
    /\ listado = <<>>
    /\ consulta = sin_consulta
    /\ SinParser
    /\ SinOrq

\* footers and page numbers are dropped, blanks collapsed, line ends trimmed
Filter ==
    /\ pc = "filter"
    /\ filtered' = filtrar(raw_lines)
    /\ pc' = "join"
    /\ UNCHANGED <<raw_lines, joined, indice, varsTitulo, varsLey, varsFix, varsNoFun>>

\* a line ending in a hyphen is joined with the line that follows it
JoinPair ==
    /\ pc = "join"
    /\ indice <= Len(filtered)
    /\ se_une(filtered, indice)
    /\ joined' = Append(joined, union_de(filtered, indice))
    /\ indice' = indice + 2
    /\ UNCHANGED <<pc, raw_lines, filtered, varsTitulo, varsLey, varsFix, varsNoFun>>

\* any other line is kept as it is
KeepLine ==
    /\ pc = "join"
    /\ indice <= Len(filtered)
    /\ ~se_une(filtered, indice)
    /\ joined' = Append(joined, filtered[indice])
    /\ indice' = indice + 1
    /\ UNCHANGED <<pc, raw_lines, filtered, varsTitulo, varsLey, varsFix, varsNoFun>>

\* return joined
NormalizeDone ==
    /\ pc = "join"
    /\ indice > Len(filtered)
    /\ pc' = "normalized"
    /\ UNCHANGED <<raw_lines, filtered, joined, indice, varsTitulo, varsLey, varsFix, varsNoFun>>

NextNorm == Filter \/ JoinPair \/ KeepLine \/ NormalizeDone

SpecNorm == InitNorm /\ [][NextNorm]_vars

(***************************************************************************)
(* find_titulo_for_article on laws of up to MaxTitulos titles.  A title    *)
(* has direct articles, chapters with articles, both or none; the titles   *)
(* come in any order of their article numbers.                             *)
(***************************************************************************)
MaxTitulos == 3

\* the contents of a title: <<direct articles, chapters>>
Contenidos ==
    {<<<<>>, <<>>>>,
     <<<<>>, <<Cap("I", <<>>)>>>>,
     <<<<Art("1", <<"t1">>), Art("2", <<"t2">>)>>, <<>>>>,
     <<<<>>, <<Cap("I", <<Art("30", <<"t30">>), Art("31", <<"t31">>)>>)>>>>,
     <<<<Art("40", <<"t40">>)>>, <<Cap("I", <<Art("41", <<"t41">>)>>), Cap("II", <<>>)>>>>,
     <<<<Art("2", <<"t2">>)>>, <<Cap("I", <<Art("40", <<"t40">>)>>)>>>>,
     <<<<Art("S/N", <<"s1">>)>>, <<>>>>}

NumerosDeTitulo == <<"I", "II", "III">>

LeyesConRangos ==
    {[titulos |-> [k \in 1..Len(cs) |-> Tit(StrV(NumerosDeTitulo[k]), cs[k][1], cs[k][2])]] :
        cs \in SeqsUpTo(Contenidos, MaxTitulos)}

\* the article numbers asked for
Buscados == {"1", "3", "20", "31", "40 bis", "90", "S/N"}

InitTitulo ==
    /\ pc = "find"
    /\ ley_data \in LeyesConRangos
    /\ numero_articulo \in Buscados
    /\ titulo_destino = sin_titulo
    /\ SinNormalizar
    /\ SinLey
    /\ SinFix
    /\ dictamen_data = <<>>
    /\ idx = 1
    /\ cambios = cambios_vacios
    /\ comparacion = sin_resultado
    /\ primera = sin_resultado
    /\ match = match_vacio
    /\ listado = <<>>
    /\ consulta = sin_consulta
    /\ SinParser
    /\ SinOrq

FindTitulo ==
    /\ pc = "find"
    /\ titulo_destino' = find_titulo_for_article(ley_data, numero_articulo)
    /\ pc' = "found"
    /\ UNCHANGED <<numero_articulo, varsNormalizar, varsLey, varsFix, varsNoFun>>

NextTitulo == FindTitulo

SpecTitulo == InitTitulo /\ [][NextTitulo]_vars

(***************************************************************************)
(* extraer_ley_mejorada on headers put together from an optional dictamen  *)
(* marker, an operation and an optional mention of the law, under every    *)
(* title context.                                                          *)
(***************************************************************************)
Marcadores == {<<>>, <<"ARTICULO", "5", "-">>}

Cuerpos ==
    {<<>>,
     <<"sustituyese", "el", "articulo", "30">>,
     <<"modificase", "el", "articulo", "40 bis">>,
     <<"derogase", "el", "inciso", "a)">>,
     <<"derogase", "el", "capitulo", "II">>,
     <<"incorporase", "el", "siguiente", "articulo">>}

Menciones ==
    {<<>>,
     <<"de", "la", "ley">>,
     <<"de", "esta", "ley">>,
     <<"de", "la", "ley", "-", "texto">>,
     <<"de", "la", "ley", "20744">>,
     <<"de", "la", "ley", "N°", "24.013">>,
     <<"de", "la", "ley", "de", "contrato", "de", "trabajo">>}

Textos == {m \o c \o l : m \in Marcadores, c \in Cuerpos, l \in Menciones}

\* "" is None: no title seen yet
Contextos == {"", "I", "II", "III"}

InitLey ==
    /\ pc = "extraer"
    /\ texto \in Textos
    /\ contexto_titulo \in Contextos
    /\ ley_afectada = "pending"
    /\ SinNormalizar
    /\ SinTitulo
    /\ SinFix
    /\ ley_data = [titulos |-> <<>>]
    /\ dictamen_data = <<>>
    /\ idx = 1
    /\ cambios = cambios_vacios
    /\ comparacion = sin_resultado
    /\ primera = sin_resultado
    /\ match = match_vacio
    /\ listado = <<>>
    /\ consulta = sin_consulta
    /\ SinParser
    /\ SinOrq

ExtraerLey ==
    /\ pc = "extraer"
    /\ ley_afectada' = extraer_ley_mejorada(texto, contexto_titulo)
    /\ pc' = "extraida"
    /\ UNCHANGED <<texto, contexto_titulo, varsNormalizar, varsTitulo, varsFix, varsNoFun>>

NextLey == ExtraerLey

SpecLey == InitLey /\ [][NextLey]_vars

(***************************************************************************)
(* fix_article_targets applied again and again to one record, as the       *)
(* enrichment runs that follow one another do with the file they rewrite.  *)
(***************************************************************************)
MaxAplicaciones == 3

\* what follows the verb in the header of the record
Objetivos ==
    {<<"el", "articulo", "40", "de", "la", "ley", "N°", "20.744">>,
     <<"los", "articulos", "1", "y", "2", "de", "la", "ley", "N°", "20.744">>,
     <<"los", "articulos", "10", ",", "12", "y", "20", "de", "la", "ley", "N°", "20.744">>,
     <<"los", "articulos", "10", "de", "la", "ley", "N°", "20.744">>,
     <<"como", "articulo", "40 bis", "de", "la", "ley", "N°", "20.744">>,
     <<"toda", "norma", "que", "se", "oponga">>}

\* the destino_articulo the file holds before the run
Recordados == {<<>>, <<"1">>, <<"10">>, <<"40">>, <<"1", "2">>, <<"10", "12", "20">>}

Registros ==
    {Item(Cambio("5", verbo, destino, "", "", "", Enc("5", verbo, objetivo), <<>>), "20744") :
        verbo \in {"sustituyese", "derogase", "modificase", "incorporase"},
        destino \in Recordados, objetivo \in Objetivos}
    \cup {Item(Cambio("5", "derogase", destino, "", "", "", <<>>, <<>>), "20744") :
              destino \in Recordados}

InitFix ==
    /\ pc = "fix"
    /\ registro \in Registros
    /\ retornos = <<>>
    /\ destinos = <<>>
    /\ SinNormalizar
    /\ SinTitulo
    /\ SinLey
    /\ ley_data = [titulos |-> <<>>]
    /\ dictamen_data = <<>>
    /\ idx = 1
    /\ cambios = cambios_vacios
    /\ comparacion = sin_resultado
    /\ primera = sin_resultado
    /\ match = match_vacio
    /\ listado = <<>>
    /\ consulta = sin_consulta
    /\ SinParser
    /\ SinOrq

\* "if fix_article_targets(item): modified = True" of one enrichment run
FixArticleTargets ==
    /\ pc = "fix"
    /\ Len(retornos) < MaxAplicaciones
    /\ registro' = fix_article_targets(registro)
    /\ retornos' = Append(retornos, fix_returns(registro))
    /\ destinos' = Append(destinos, registro'.destino_articulo)
    /\ UNCHANGED <<pc, varsNormalizar, varsTitulo, varsLey, varsNoFun>>

NextFix == FixArticleTargets

SpecFix == InitFix /\ [][NextFix]_vars

(***************************************************************************)
(* Properties of the reconciliation.                                       *)
(***************************************************************************)
\* the operations process_dictamen_changes has gone through
Procesados == {dictamen_data[k] : k \in 1..(idx - 1)}

\* WholeLaw: no article, no inciso and no chapter target
WholeLaw(cambio) ==
    /\ get_destino_articulo(cambio) = <<>>
    /\ cambio.destino_inciso = ""
    /\ cambio.destino_capitulo = ""

\* C1: when metadatos.derogacion_total is true, every article and every
\* chapter of the output tree, incorporated articles included, has estado
\* 'derogado'.
C1_DerogacionTotal ==
    (pc = "done" /\ comparacion.metadatos.derogacion_total)
    => /\ \A a \in Range(AllArts(comparacion.titulos)) : a.estado = "derogado"
       /\ \A c \in Range(AllCaps(comparacion.titulos)) :
             "estado" \in DOMAIN c /\ c.estado = "derogado"

\* C3: every output article with estado 'sustituido' has texto_original equal
\* to the text of the law's article and a non-empty texto_nuevo.
C3_Sustituido ==
    pc = "done"
    => \A a \in Range(AllArts(comparacion.titulos)) :
          a.estado = "sustituido"
          => /\ \E o \in Range(AllArts(ley_data.titulos)) :
                   o.numero = a.numero /\ a.texto_original = o.texto
             /\ a.texto_nuevo # <<>>

\* C5: a derogated chapter that has N articles in the law has exactly N
\* articles in the output, all 'derogado' and none 'incorporado'.
C5_CapituloDerogado ==
    pc = "done"
    => \A t \in 1..Len(ley_data.titulos) :
         \A c \in 1..Len(ley_data.titulos[t].capitulos) :
           LET capitulo == ley_data.titulos[t].capitulos[c]
               salida == comparacion.titulos[t].capitulos[c]
           IN  (\E cambio \in Range(dictamen_data) :
                    cambio.accion \in DerogaVerbs
                    /\ cambio.destino_capitulo = capitulo.numero)
               => /\ Len(salida.articulos) = Len(capitulo.articulos)
                  /\ \A a \in Range(salida.articulos) : a.estado = "derogado"

\* C8: an operation without a recorded target whose header and replacement
\* text name different articles resolves to the article of the text.
C8_TextoManda ==
    \A cambio \in Procesados :
       (/\ cambio.destino_articulo = <<>>
        /\ numero_desde_encabezado(cambio.encabezado) # <<>>
        /\ numero_desde_texto(cambio.texto_nuevo) # <<>>
        /\ numero_desde_encabezado(cambio.encabezado)
             # numero_desde_texto(cambio.texto_nuevo))
       => get_destino_articulo(cambio) = numero_desde_texto(cambio.texto_nuevo)

\* C9: derogacion_total is set only when some processed derogation is a
\* WholeLaw one; a derogation of an inciso never sets it.
C9_SoloLeyCompleta ==
    cambios.derogacion_total
    => \E cambio \in Procesados : cambio.accion \in DerogaVerbs /\ WholeLaw(cambio)

\* C6: a derogation of Chapter VIII over a law whose Chapter VIII has no
\* articles leaves that chapter with exactly 7 synthesized articles, all
\* 'derogado', under Title III of the comparison.
C6_CapituloVIII ==
    pc = "done"
    => \A t \in 1..Len(ley_data.titulos) :
         \A c \in 1..Len(ley_data.titulos[t].capitulos) :
           LET capitulo == ley_data.titulos[t].capitulos[c]
               salida == comparacion.titulos[t].capitulos[c]
           IN  (/\ capitulo.numero = "VIII"
                /\ capitulo.articulos = <<>>
                /\ \E cambio \in Range(dictamen_data) :
                      cambio.accion \in DerogaVerbs /\ cambio.destino_capitulo = "VIII")
               => /\ comparacion.titulos[t].numero = StrV("III")
                  /\ Len(salida.articulos) = SyntheticCount
                  /\ \A a \in Range(salida.articulos) : a.estado = "derogado"

(***************************************************************************)
(* Properties of the matcher.                                              *)
(***************************************************************************)
\* the positions of the operations the matcher resolves to the article asked for
OperacionesSobre(numero) ==
    {k \in 1..Len(dictamen_data) :
        /\ dictamen_data[k].destino_capitulo = ""
        /\ matcher_get_destino_articulo(dictamen_data[k]) = <<numero>>}

\* C2: when two or more operations of the list target the same article of
\* the law, the operation that decides the article's estado is the last of
\* them in document order: a derogation if and only if that one derogates.
C2_UltimaOperacion ==
    (pc = "asked" /\ Cardinality(OperacionesSobre(consulta.numero)) >= 2)
    => LET ultima == dictamen_data[MaxOf(OperacionesSobre(consulta.numero))]
       IN  /\ consulta.cambio # <<>>
           /\ consulta.cambio[1].accion = ultima.accion

(***************************************************************************)
(* Properties of the parser.                                               *)
(***************************************************************************)
\* C4: every sealed operation has at most one of destino_articulo,
\* destino_inciso and destino_capitulo populated (none of them is the
\* whole-law target), and an inciso target has a non-empty parent article.
C4_UnaVariante ==
    \A a \in Range(articulos) :
       LET o == a.objetivo_accion
           pobladas == {v \in {"articulo", "inciso", "capitulo"} :
                          \/ v = "articulo" /\ o.destino_articulo # <<>>
                          \/ v = "inciso" /\ o.destino_inciso # ""
                          \/ v = "capitulo" /\ o.destino_capitulo # ""}
       IN  /\ Cardinality(pobladas) <= 1
           /\ o.destino_inciso # "" => o.destino_articulo_padre # ""

\* the text after the trigger phrase on its line
despues_del_gatillo(line) ==
    Drop(line, TRIGGER_RE(line) + trigger_len(line, TRIGGER_RE(line)) - 1)

\* a step of parse_dictamen that starts an operation
IniciaOperacion ==
    /\ Parsing
    /\ ~EsTitulo
    /\ ~EsDelimitador
    /\ HEADER_RE(lines[linea])
    /\ is_dictamen_header(lines, linea).es_dictamen

\* a step of parse_dictamen taken on a line of an operation whose new text
\* is not being captured yet
EsperaGatillo ==
    /\ Parsing
    /\ ~EsTitulo
    /\ ~EsDelimitador
    /\ EnCurso
    /\ ~current.capturing_new_text

\* C7: a step that consumes a line with a trigger phrase, as the header of
\* an operation, as a continuation of the header or as a later line, leaves
\* the operation capturing its new text, and the text after the trigger on
\* that line is the first line of the captured text.
C7_GatilloCaptura ==
    [][(IniciaOperacion \/ EsperaGatillo)
       => \A l \in linea..(linea' - 1) :
             TRIGGER_RE(lines[l]) # 0
             => /\ current'.capturing_new_text
                /\ despues_del_gatillo(lines[l]) # <<>>
                   => /\ current'.texto_nuevo # <<>>
                      /\ current'.texto_nuevo[1] = despues_del_gatillo(lines[l])]_vars

\* the header names an article of the law after its operative verb
NombraArticulo(header_text) ==
    \E k \in (OP_VERB_RE(header_text) + 1)..(Len(header_text) - 1) :
       /\ OP_VERB_RE(header_text) # 0
       /\ header_text[k] \in ArtWord
       /\ header_text[k + 1] \in ArtNums

\* C10: while an operation is open, if its header names no article of the
\* law after the operative verb, the target article read from the header is
\* unset: the dictamen's own marker is never taken for it.
C10_SinMarcador ==
    (EnCurso /\ ~NombraArticulo(current.encabezado))
    => current.meta.destino_articulo = <<>>

\* the step opens an operation
AbreOperacion ==
    /\ current'.dictamen_art # ""
    /\ current.dictamen_art = "" \/ Len(articulos') > Len(articulos)

\* the rule for the line at hand: its tail holds an operative verb, or the
\* tail is empty and the next non-blank line holds one
ReglaEncabezado ==
    LET tail == Drop(lines[linea], 3)
        j == find_next_nonempty(lines, linea + 1)
    IN  \/ looks_like_dictamen_header(tail)
        \/ tail = <<>> /\ j <= Len(lines) /\ looks_like_dictamen_header(lines[j])

\* the step adds the line at hand to the text of the open operation
EsTextoDeLaOperacion ==
    \/ current'.texto_nuevo = Append(current.texto_nuevo, lines[linea])
    \/ current'.texto_intermedio = Append(current.texto_intermedio, lines[linea])

\* C11: a step taken on a line "ARTICULO N - tail" opens an operation if and
\* only if the tail holds an operative verb, or the tail is empty and the
\* next non-blank line holds one; otherwise the line becomes text of the
\* operation that is open.
C11_ReglaDeApertura ==
    [][(Parsing /\ ~EsTitulo /\ ~EsDelimitador /\ HEADER_RE(lines[linea]))
       => /\ AbreOperacion <=> ReglaEncabezado
          /\ (~ReglaEncabezado /\ EnCurso) => EsTextoDeLaOperacion]_vars

\* the numbers of the lines parse_dictamen takes for operation headers from
\* line i on, in order
RECURSIVE Encabezados(_, _)
Encabezados(ls, i) ==
    IF i > Len(ls) THEN <<>>
    ELSE IF TITULO_RE_ANYWHERE(ls[i]) = 0 /\ is_dictamen_header(ls, i).es_dictamen
    THEN <<ls[i][2]>> \o Encabezados(ls, is_dictamen_header(ls, i).j)
    ELSE Encabezados(ls, i + 1)

\* the numbers of the operations sealed so far followed by the open one
Operaciones ==
    [k \in 1..Len(articulos) |-> articulos[k].dictamen_articulo]
    \o (IF EnCurso THEN <<current.dictamen_art>> ELSE <<>>)

\* C12: the operations sealed so far, followed by the open one, are the
\* operation headers met so far, one each and in their order; when the
\* input ends no operation is open and the sealed operations are exactly
\* the operation headers of the input.
C12_UnaPorEncabezado ==
    /\ Len(Operaciones) <= Len(Encabezados(lines, 1))
    /\ Operaciones = SubSeq(Encabezados(lines, 1), 1, Len(Operaciones))
    /\ pc = "parsed" => (~EnCurso /\ Operaciones = Encabezados(lines, 1))
    /\ (pc = "parse" /\ linea > Len(lines)) => Operaciones = Encabezados(lines, 1)

\* three operations sealed: by the next header, by a structural heading
\* and by the end of the input
C12_Testigo ==
    /\ pc = "parsed"
    /\ Len(articulos) >= 2
    /\ \E k \in 1..Len(lines) : lines[k] = lCapitulo
    /\ lines[Len(lines)] # lCapitulo

(***************************************************************************)
(* Two invocations of comparar_ley_dictamen_objects on the same law object *)
(* and the same operation list: the second one runs on the objects as the  *)
(* first one left them.                                                    *)
(***************************************************************************)
SegundaInvocacion ==
    /\ pc = "done"
    /\ primera = sin_resultado
    /\ primera' = comparacion
    /\ comparacion' = sin_resultado
    /\ cambios' = cambios_vacios
    /\ idx' = 1
    /\ pc' = "process"
    /\ UNCHANGED <<ley_data, dictamen_data, varsMatch, varsParser, varsOrq, varsFun>>

NextRepetir == ProcessCambio \/ BuildComparacion \/ InsertIncorporados \/ SegundaInvocacion

SpecRepetir == InitCmp /\ [][NextRepetir]_vars

\* title k of the comparison holds more articles than title k of the law
RecibioInsercion(k) ==
    Len(comparacion.titulos[k].articulos \o CapArts(comparacion.titulos[k].capitulos))
       > Len(ley_data.titulos[k].articulos \o CapArts(ley_data.titulos[k].capitulos))

HayInsercion == \E k \in 1..Len(comparacion.titulos) : RecibioInsercion(k)

Rango(art) == <<extract_base_number(art.numero), suffix_order(art.numero)>>

NoDecreciente(s) ==
    \A i, j \in 1..Len(s) :
        (i < j /\ s[i].numero \in ArtNums /\ s[j].numero \in ArtNums)
            => KeyLE(Rango(s[i]), Rango(s[j]))

\* C14: once the incorporated articles are inserted, in every title that
\* received one the direct article list and the article list of each of its
\* chapters are non-decreasing by (numeric base, suffix rank), an article
\* without suffix before its bis.
C14_ListasOrdenadas ==
    pc = "done" =>
        \A k \in 1..Len(comparacion.titulos) :
            RecibioInsercion(k) =>
                /\ NoDecreciente(comparacion.titulos[k].articulos)
                /\ \A c \in 1..Len(comparacion.titulos[k].capitulos) :
                       NoDecreciente(comparacion.titulos[k].capitulos[c].articulos)

\* an incorporated article stands before an article the law already had
C14_Testigo ==
    /\ pc = "done"
    /\ \E k \in 1..Len(comparacion.titulos) :
          /\ RecibioInsercion(k)
          /\ \E i \in 1..Len(comparacion.titulos[k].articulos) :
                /\ i < Len(comparacion.titulos[k].articulos)
                /\ "estado" \in DOMAIN comparacion.titulos[k].articulos[i]
                /\ comparacion.titulos[k].articulos[i].estado = "incorporado"
                /\ Len(comparacion.titulos[k].articulos) > 2

\* the operations of the list whose action is neither null nor absent
RECURSIVE ConAccion(_)
ConAccion(ops) ==
    IF ops = <<>> THEN <<>>
    ELSE (IF Head(ops).accion \in {SinAccion, ""} THEN <<>> ELSE <<Head(ops)>>)
         \o ConAccion(Tail(ops))

\* C16: comparar_ley_dictamen_objects never raises on an operation whose
\* action or target fields are null or absent: it returns a comparison tree,
\* and the operation is not applicable, i.e. the counters of the tree are
\* those of the list without it.
C16_NoLanza ==
    /\ pc # "raised"
    /\ pc = "done" =>
          comparacion.metadatos =
              metadatos_de(process_dictamen_changes(ConAccion(dictamen_data), ley_data))

\* the law number of the operation is resolved
Resuelta(item) == item.ley_numero \notin {"", "UNKNOWN"}

\* the operations orchestrate handed to a law, all laws together
RECURSIVE Agrupadas(_)
Agrupadas(abl) ==
    IF abl = <<>> THEN <<>> ELSE Head(abl).operaciones \o Agrupadas(Tail(abl))

\* C15, first part: after enrichment an operation without resolved law number
\* carries ley_numero = 'UNKNOWN'.
SinLeyEsUnknown ==
    pc # "enrich" =>
        \A k \in 1..Len(dictamen_data) :
            ~Resuelta(dictamen_data[k]) => dictamen_data[k].ley_numero = "UNKNOWN"

\* C15, second part: orchestrate passes no such operation to a law.
NoSeReconcilia ==
    \A k \in 1..Len(Agrupadas(articles_by_law)) : Resuelta(Agrupadas(articles_by_law)[k])

\* C15, third part: every law with operations is visited, one without
\* normalized tree is skipped, and the others are still processed.
SigueProcesando ==
    pc = "end" =>
        /\ Len(salidas) = Len(articles_by_law)
        /\ Len(Agrupadas(articles_by_law))
              = Cardinality({k \in 1..Len(dictamen_data) : Resuelta(dictamen_data[k])})
        /\ \A k \in 1..Len(salidas) :
              /\ salidas[k].ley = articles_by_law[k].ley
              /\ salidas[k].resultado = "skipped" <=> salidas[k].ley \notin normalizadas

\* C15: an operation whose law number cannot be resolved ends with
\* ley_numero = 'UNKNOWN' after enrichment, orchestrate never passes it to the
\* reconciliation of a law, and it stops neither the other operations nor the
\* other laws; a law without normalized tree is skipped and the remaining
\* laws are processed.
C15_SinLeyResuelta ==
    /\ SinLeyEsUnknown
    /\ NoSeReconcilia
    /\ SigueProcesando

\* the numeral of the last Titulo heading among the lines 1..i, or ""
RECURSIVE UltimoTitulo(_, _)
UltimoTitulo(ls, i) ==
    IF i < 1 THEN ""
    ELSE IF TITULO_RE(ls[i]) THEN ls[i][2]
    ELSE UltimoTitulo(ls, i - 1)

\* the words of a Titulo heading stand in the text
ConEncabezadoDeTitulo(toks) ==
    \E k \in 1..(Len(toks) - 1) : toks[k] = "TITULO" /\ toks[k + 1] \in Numerals

\* a structural heading met in BodyCapture seals the operation, without the
\* heading in its text
SellaEnCaptura ==
    (Parsing /\ EnCurso /\ current.capturing_new_text /\ STRUCT_RE(lines[linea]))
        => /\ current'.dictamen_art = ""
           /\ Len(articulos') = Len(articulos) + 1
           /\ articulos'[Len(articulos')].texto_completo =
                 Strip(JoinNL(current.encabezado_completo \o current.texto_intermedio
                              \o current.texto_nuevo))

\* an operation is opened under the last Titulo heading before its header
ContextoDeTitulo ==
    DictamenHeader => current'.titulo = UltimoTitulo(lines, linea - 1)

\* no text of an operation holds a Titulo heading
TituloFueraDelTexto ==
    /\ \A k \in 1..Len(articulos') : ~ConEncabezadoDeTitulo(articulos'[k].texto_completo)
    /\ ~ConEncabezadoDeTitulo(JoinNL(current'.encabezado_completo
                                      \o current'.texto_intermedio \o current'.texto_nuevo))

\* C18: a structural heading (Titulo, Capitulo, Seccion, Anexo) met while an
\* operation is in BodyCapture seals the operation and is no part of its
\* text; a Titulo heading is the title context of every operation opened
\* after it, up to the next Titulo heading, and stands in no operation's
\* header, intermediate or captured text.
C18_EncabezadoEstructural ==
    [][SellaEnCaptura /\ ContextoDeTitulo /\ TituloFueraDelTexto]_vars

\* an incorporation waits for its text and the line is an "ARTICULO N -"
\* line without operative verb
IncorporacionAnteArticulo ==
    /\ Parsing
    /\ ~EsTitulo
    /\ EnCurso
    /\ current.meta.accion = "incorporase"
    /\ ~current.capturing_new_text
    /\ current.texto_nuevo = <<>>
    /\ HEADER_RE(lines[linea])
    /\ ~looks_like_dictamen_header(Drop(lines[linea], 3))

\* C19: for an incorporation whose trigger phrase has not been found, the
\* first following "ARTICULO N -" line without operative verb starts the
\* capture of the new text and is its first line.
C19_InicioPorArticulo ==
    [][IncorporacionAnteArticulo
          => /\ current'.dictamen_art = current.dictamen_art
             /\ current'.capturing_new_text
             /\ current'.texto_nuevo = <<lines[linea]>>]_vars

\* the non-blank lines among lines a..b
NoBlancas(ls, a, b) == Cardinality({k \in a..b : ls[k] # <<>>})

\* the first line the search for the trigger phrase of the header looks at
InicioDeBusqueda ==
    IF looks_like_dictamen_header(Drop(lines[linea], 3)) THEN linea + 1
    ELSE find_next_nonempty(lines, linea + 1) + 1

\* C20: parse_dictamen terminates on every finite sequence of lines: each
\* iteration of its loop moves the line index forward, and the search for
\* the trigger phrase of a header takes at most 5 non-blank continuation
\* lines, and the line of the trigger phrase when it finds it.
C20_Termina ==
    /\ [][/\ Parsing => (linea < linea' /\ linea' <= Len(lines) + 1)
          /\ DictamenHeader =>
                NoBlancas(lines, InicioDeBusqueda, linea' - 1)
                   <= 5 + (IF current'.capturing_new_text THEN 1 ELSE 0)]_vars
    /\ <>(pc = "parsed")

\* a header has taken five continuation lines and left the sixth
C20_Testigo ==
    /\ pc = "parse"
    /\ EnCurso
    /\ linea <= Len(lines)
    /\ lines[linea] \in {lSigue, lGatillo}
    /\ current.texto_intermedio = <<>>
    /\ current.texto_nuevo = <<>>
    /\ current.encabezado = hSust \o lSigue \o lSigue \o lSigue \o lSigue \o lSigue

(***************************************************************************)
(* Properties of normalize_lines.                                          *)
(***************************************************************************)
\* the loop is at a line that ends in a hyphen and has a line after it
GuionFinal ==
    /\ pc = "join"
    /\ indice < Len(filtered)
    /\ filtered[indice] # <<>>
    /\ filtered[indice][Len(filtered[indice])] = "-"

\* first character of the following line, blanks aside ("" when it has none)
Siguiente ==
    LET nxt == lstrip(filtered[indice + 1])
    IN  IF nxt = <<>> THEN "" ELSE Head(nxt)

\* the step joins the line with the following one
Une == joined' = Append(joined, union_de(filtered, indice)) /\ indice' = indice + 2

\* the step keeps the line as it is, hyphen included
Conserva == joined' = Append(joined, filtered[indice]) /\ indice' = indice + 1

\* C21: a line ending in a hyphen is joined with the following line only
\* when that line starts with a lower-case letter; followed by a line that
\* starts with an upper-case letter it is kept as a line of its own with its
\* hyphen.  Every join takes one line off the output, and lines keep their
\* order: the output and the lines still to read add up to the filtered list.
C21_UneSoloMinuscula ==
    [][/\ GuionFinal /\ Siguiente \in Minusculas => Une
       /\ GuionFinal /\ Siguiente \notin Minusculas => Conserva
       /\ (pc = "join" /\ indice <= Len(filtered) /\ ~GuionFinal) => Conserva]_vars

(***************************************************************************)
(* Properties of find_titulo_for_article.                                  *)
(***************************************************************************)
\* the numeric bases of the articles of title k, direct and in chapters
BasesDeTitulo(k) ==
    LET t == ley_data.titulos[k]
    IN  {extract_base_number(t.articulos[a].numero) : a \in 1..Len(t.articulos)}
        \cup UNION {{extract_base_number(t.capitulos[c].articulos[a].numero) :
                        a \in 1..Len(t.capitulos[c].articulos)} :
                    c \in 1..Len(t.capitulos)}

ConArticulos == {k \in 1..Len(ley_data.titulos) : BasesDeTitulo(k) # {}}

BaseBuscada == extract_base_number(numero_articulo)

LoContiene(k) ==
    /\ k \in ConArticulos
    /\ \E lo, hi \in BasesDeTitulo(k) : lo <= BaseBuscada /\ BaseBuscada <= hi

TerminaDebajo(k) ==
    /\ k \in ConArticulos
    /\ \A x \in BasesDeTitulo(k) : x < BaseBuscada

\* title k is the title the function returned
Devuelto(k) == titulo_destino = ley_data.titulos[k].numero

\* C22: find_titulo_for_article returns the first title whose range of
\* article bases contains the base of the number; else the title with the
\* greatest max below it; else the last title with articles; and None only
\* when no title has an article.
C22_TituloPorRango ==
    pc = "found" =>
        IF \E k \in ConArticulos : LoContiene(k)
        THEN \E k \in ConArticulos :
                /\ LoContiene(k) /\ Devuelto(k)
                /\ \A j \in 1..(k - 1) : ~LoContiene(j)
        ELSE IF \E k \in ConArticulos : TerminaDebajo(k)
        THEN \E k \in ConArticulos :
                /\ TerminaDebajo(k) /\ Devuelto(k)
                /\ \A j \in ConArticulos :
                      TerminaDebajo(j)
                         => \A x \in BasesDeTitulo(j) : \E y \in BasesDeTitulo(k) : x <= y
        ELSE IF ConArticulos # {}
        THEN \E k \in ConArticulos : Devuelto(k) /\ \A j \in ConArticulos : j <= k
        ELSE titulo_destino = NoneV

\* the nearest title below the number is not the last title below it
C22_Testigo ==
    /\ pc = "found"
    /\ ~\E k \in ConArticulos : LoContiene(k)
    /\ \E k, j \in ConArticulos :
          /\ k < j /\ TerminaDebajo(k) /\ TerminaDebajo(j) /\ Devuelto(k)
          /\ \E y \in BasesDeTitulo(k) : \A x \in BasesDeTitulo(j) : x < y

(***************************************************************************)
(* Properties of the insertion of incorporated articles.                   *)
(***************************************************************************)
\* the incorporations of the run: the recorded operations whose article is
\* nowhere in the law
SonIncorporacion ==
    {k \in 1..Len(cambios.incorporaciones) :
        ~find_article_in_ley(ley_data, cambios.incorporaciones[k].numero)}

\* the articles of title t of the comparison that are incorporated as numero
ComoIncorporado(t, numero) ==
    LET arts == AllArts(<<comparacion.titulos[t]>>)
    IN  {a \in 1..Len(arts) :
            /\ "estado" \in DOMAIN arts[a]
            /\ arts[a].estado = "incorporado"
            /\ arts[a].numero = numero}

\* the titles of the law with the numero find_titulo_for_article returns
Destinos(numero) ==
    {t \in 1..Len(ley_data.titulos) :
        ley_data.titulos[t].numero = find_titulo_for_article(ley_data, numero)}

\* C23: every incorporation is in the output tree exactly once, as an
\* article with estado "incorporado" of its destination title: an article
\* number is there as many times as operations incorporate it, and nowhere
\* but in the destination title.
C23_IncorporadoUnaVez ==
    pc = "done" =>
        \A k \in SonIncorporacion :
            LET numero == cambios.incorporaciones[k].numero
                veces == Cardinality({j \in SonIncorporacion :
                                         cambios.incorporaciones[j].numero = numero})
            IN  /\ \E t \in Destinos(numero) :
                      Cardinality(ComoIncorporado(t, numero)) = veces
                /\ \A t \in 1..Len(comparacion.titulos) :
                      t \notin Destinos(numero) => ComoIncorporado(t, numero) = {}

(***************************************************************************)
(* Properties of extraer_ley_mejorada.                                     *)
(***************************************************************************)
\* the text names no law: no law number and no name of a law
SinLeyExplicita ==
    /\ \A k \in 1..Len(texto) : numero_normalizado(texto[k]) = ""
    /\ ~Contains(texto, <<"de", "contrato", "de", "trabajo">>)

\* C24: for a header without explicit law mention a statute is inferred from
\* "de la ley" / "esta ley" only under the title context known for it
\* (Title I for 20744); under another title, or without title, the law
\* number stays unresolved.
C24_InferenciaSoloTituloI ==
    (pc = "extraida" /\ SinLeyExplicita /\ contexto_titulo # "I") => ley_afectada = ""

(***************************************************************************)
(* Properties of the article index.                                        *)
(***************************************************************************)
\* the actions of an operation, as the verb and as the parser normalizes it
AccionesDeOperacion ==
    {"sustituyese", "incorporase", "derogase", "modificase", "suprimese",
     "reemplazase", "crease",
     "sustituye", "incorpora", "deroga", "modifica", "suprime", "reemplaza", "crea"}

\* the operation is in the index under numero or among the incorporations
TomadaEnCuenta(numero) ==
    \/ numero \in DOMAIN cambios.cambios_por_articulo
    \/ \E k \in 1..Len(cambios.incorporaciones) : cambios.incorporaciones[k].numero = numero

\* C25: every processed operation with a resolved article target that is no
\* chapter derogation is in the article index for each of its targets or is
\* recorded as an incorporation of it, whatever its action.
C25_NingunaIgnorada ==
    \A cambio \in Procesados :
        (/\ cambio.destino_capitulo = ""
         /\ cambio.accion \in AccionesDeOperacion)
        => \A numero \in Range(get_destino_articulo(cambio)) : TomadaEnCuenta(numero)

(***************************************************************************)
(* Properties of the comparison tree.                                      *)
(***************************************************************************)
\* the articles of a list of the comparison that come from the law, each
\* reduced to the fields the law stores
DeLaLey(arts) ==
    LET propios == SelectSeq(arts, LAMBDA a : a.estado # "incorporado")
    IN  [k \in 1..Len(propios) |-> [numero |-> propios[k].numero, texto |-> propios[k].texto]]

Veces(x, list) == Cardinality({k \in 1..Len(list) : list[k] = x})

\* the same articles, each the same number of times
MismosArticulos(entrada, salida) ==
    /\ Len(entrada) = Len(DeLaLey(salida))
    /\ \A x \in Range(entrada) : Veces(x, entrada) = Veces(x, DeLaLey(salida))

MismaEstructura(titulo, comparado) ==
    /\ comparado.numero = titulo.numero
    /\ MismosArticulos(titulo.articulos, comparado.articulos)
    /\ Len(comparado.capitulos) = Len(titulo.capitulos)
    /\ \A c \in 1..Len(titulo.capitulos) :
          /\ comparado.capitulos[c].numero = titulo.capitulos[c].numero
          /\ MismosArticulos(titulo.capitulos[c].articulos, comparado.capitulos[c].articulos)

\* C26: the comparison has the titles and chapters of the law in the same
\* order, and each title and chapter holds every article of the law once,
\* numero and texto unchanged; any other article is 'incorporado'.
C26_MismoArbol ==
    pc = "done" =>
        /\ Len(comparacion.titulos) = Len(ley_data.titulos)
        /\ \A t \in 1..Len(ley_data.titulos) :
              MismaEstructura(ley_data.titulos[t], comparacion.titulos[t])

\* a law article was substituted, another derogated, and an article was
\* incorporated
C26_Testigo ==
    /\ pc = "done"
    /\ \E a, b, c \in Range(AllArts(comparacion.titulos)) :
          /\ a.estado = "sustituido" /\ a.texto_nuevo # a.texto
          /\ b.estado = "derogado"
          /\ c.estado = "incorporado"

(***************************************************************************)
(* Properties of chapter derogations.                                      *)
(***************************************************************************)
\* the title a header names after "del titulo", "" when it names none
TituloNombrado(encabezado) ==
    LET n == Len(encabezado)
        nombra(k) == k + 2 <= n /\ encabezado[k] = "del" /\ encabezado[k + 1] = "titulo"
        k0 == FirstFrom(nombra, 1, n)
    IN  IF k0 = 0 THEN "" ELSE encabezado[k0 + 2]

\* some operation of the dictamen derogates chapter cap of title tit
DerogaElCapitulo(cap, tit) ==
    \E k \in 1..Len(dictamen_data) :
        /\ dictamen_data[k].accion \in DerogaVerbs
        /\ dictamen_data[k].destino_capitulo = cap
        /\ TituloNombrado(dictamen_data[k].encabezado) \in {"", tit.v}

EsDerogado(nodo) == "estado" \in DOMAIN nodo /\ nodo.estado = "derogado"

\* C27: a chapter derogation that names its title reaches that title's
\* chapter only: a chapter of the comparison is 'derogado', and its articles
\* are derogated with it, only when an operation derogates the chapter of
\* that number in that title.
C27_SoloUnCapitulo ==
    (pc = "done" /\ ~cambios.derogacion_total) =>
        \A t \in 1..Len(comparacion.titulos) :
            \A c \in 1..Len(comparacion.titulos[t].capitulos) :
                LET capitulo == comparacion.titulos[t].capitulos[c]
                IN  (\/ EsDerogado(capitulo)
                     \/ \E a \in Range(capitulo.articulos) :
                           a.estado = "derogado" /\ a.accion = "derogase (capitulo completo)")
                    => DerogaElCapitulo(capitulo.numero, comparacion.titulos[t].numero)

(***************************************************************************)
(* Properties of the metadata counters.                                    *)
(***************************************************************************)
\* the number of articles of the comparison tree that satisfy P
Cuenta(P(_)) ==
    LET arts == AllArts(comparacion.titulos)
    IN  Cardinality({k \in 1..Len(arts) : P(arts[k])})

EsSustituido(a) == a.estado = "sustituido"

\* derogated by an operation on the article, not with its chapter or law
EsDerogadoPorArticulo(a) == a.estado = "derogado" /\ a.accion \in DerogaVerbs

EsIncorporado(a) == a.estado = "incorporado"

\* C28: in every output the counters total_sustituciones,
\* total_derogaciones and total_incorporaciones are the numbers of articles
\* of the tree that are 'sustituido', 'derogado' by an article-level
\* operation and 'incorporado'.
C28_ContadoresDelArbol ==
    pc = "done" =>
        /\ comparacion.metadatos.total_sustituciones = Cuenta(EsSustituido)
        /\ comparacion.metadatos.total_derogaciones = Cuenta(EsDerogadoPorArticulo)
        /\ comparacion.metadatos.total_incorporaciones = Cuenta(EsIncorporado)

(***************************************************************************)
(* Properties of the title context.                                        *)
(***************************************************************************)
\* "titulo <number>" stands somewhere in the line
ConMencionDeTitulo(toks) ==
    \E k \in 1..(Len(toks) - 1) : toks[k] \in {"TITULO", "titulo"} /\ toks[k + 1] \in Numerals

\* the line at hand is no Titulo heading
NoEsEncabezadoDeTitulo == Parsing /\ ~TITULO_RE(lines[linea])

\* the line at hand mentions a title inside its text, with an operation open
MencionConOperacionAbierta ==
    /\ NoEsEncabezadoDeTitulo
    /\ EnCurso
    /\ ~HEADER_RE(lines[linea])
    /\ ConMencionDeTitulo(lines[linea])

\* the line at hand is text of the open operation after the step
CapturadaComoTexto ==
    /\ current'.dictamen_art = current.dictamen_art
    /\ articulos' = articulos
    /\ \/ current'.texto_intermedio = Append(current.texto_intermedio, lines[linea])
       \/ current'.texto_nuevo = Append(current.texto_nuevo, lines[linea])

\* C29: the title context changes, and a title seals the open operation,
\* only at lines that begin with "TITULO <number>"; a line that mentions a
\* title inside prose is captured as text of the open operation.
C29_SoloEncabezadosDeTitulo ==
    [][/\ NoEsEncabezadoDeTitulo => current'.titulo = current.titulo
       /\ MencionConOperacionAbierta => CapturadaComoTexto]_vars

\* C30: fix_article_targets is idempotent: applied a second time to any
\* operation record it returns False and leaves destino_articulo as the first
\* application set it, also when the header names a list of articles.
C30_FixIdempotente ==
    Len(retornos) >= 2 => /\ ~retornos[2]
                          /\ destinos[2] = destinos[1]

====
